---- MODULE Spec2Model ----
(***************************************************************************)
(* A model of the MISP to STIX conversion engines:                         *)
(*   MISPtoSTIX1Parser  (stix_export/misp_to_stix1.py), the nested         *)
(*                      incident/package target,                           *)
(*   MISPtoSTIX2Parser  (misp2stix/misp_to_stix2.py), the flat bundle      *)
(*                      target.                                            *)
(* A text is a sequence of tokens, the separators ":" and "|" being tokens *)
(* of their own, so that split, startswith and upper are computed.  A      *)
(* Python dict is a sequence of [k, v] pairs in insertion order.  An       *)
(* output identifier f"{namespace}:{Kind}-{uuid}" is the pair              *)
(* <<Kind, uuid>>.                                                         *)
(***************************************************************************)
EXTENDS Integers, Sequences, FiniteSets, TLC

VARIABLES
    \* ---- MISPtoSTIX1Parser instance ----
    errors,               \* self.errors: list of [type, value]
    warnings,             \* self.warnings: set of texts
    contextualised_data,  \* self.contextualised_data: 'ttp', 'course_of_action', 'threat_actor'
    courses_of_action,    \* self.courses_of_action: dict uuid -> CourseOfAction
    threat_actors,        \* self.threat_actors: dict uuid -> ThreatActor
    ttps,                 \* self.ttps: dict uuid -> TTP
    misp_event,           \* self.misp_event, the items read so far included
    incident,             \* self.incident
    stix_package,         \* self._stix_package
    pc,                   \* position inside parse_misp_event
    nparsed,              \* number of parse_misp_event calls made on the instance
    at_call,              \* what the instance held when the current call began
    \* ---- MISPtoSTIX2Parser instance ----
    _objects,             \* self._objects
    _object_refs,         \* self._object_refs
    _markings,            \* self._markings: dict tag -> marking definition
    _orgs,                \* self._orgs
    _ids,                 \* self._ids, the ids argument of the current call
    _identity_id,         \* self._identity_id
    _errors,              \* self._errors of the base class
    _warnings,            \* self._warnings of the base class
    _misp_event,          \* self._misp_event, the attributes read so far included
    index,                \* the local index of parse_misp_event
    pc2,                  \* position inside parse_misp_event of the bundle target
    calls,                \* the calls made on the bundle target: the organisation of
                          \* the event, the ids argument, what stix_objects and
                          \* self._markings held after, whether the instance was new
    \* ---- a call of _set_handling on its own ----
    tag_list,             \* the tags argument of _set_handling
    resolved_handling,    \* what _set_handling returned or raised
    \* ---- calls of _handle_markings on their own ----
    resolutions           \* the calls made: the markings given, what was returned or raised

vars1 == <<errors, warnings, contextualised_data, courses_of_action, threat_actors,
           ttps, misp_event, incident, stix_package, pc, nparsed, at_call>>

vars2 == <<_objects, _object_refs, _markings, _orgs, _ids, _identity_id, _errors,
           _warnings, _misp_event, index, pc2, calls>>

vars3 == <<tag_list, resolved_handling, resolutions>>

vars == <<vars1, vars2, vars3>>

----
\* Bounds of the model.
MaxEvents == 2
MaxAttributes == 2
MaxObjects == 2
MaxTags == 3
MaxResolutions == 2

----
\* Python dict, insertion ordered.
EmptyDict == <<>>

Keys(d) == {d[i].k : i \in DOMAIN d}

Has(d, key) == \E i \in DOMAIN d : d[i].k = key

Get(d, key) == d[CHOOSE i \in DOMAIN d : d[i].k = key].v

Put(d, key, val) ==
    IF Has(d, key)
    THEN [i \in DOMAIN d |-> IF d[i].k = key THEN [k |-> key, v |-> val] ELSE d[i]]
    ELSE Append(d, [k |-> key, v |-> val])

Values(d) == [i \in DOMAIN d |-> d[i].v]

Range(seq) == {seq[i] : i \in DOMAIN seq}

RECURSIVE Concat(_)
Concat(seqs) == IF seqs = <<>> THEN <<>> ELSE Head(seqs) \o Concat(Tail(seqs))

----
\* Texts.
RECURSIVE LastSegment(_)
\* text.split(':')[-1]
LastSegment(text) ==
    IF \E i \in DOMAIN text : text[i] = ":"
    THEN LastSegment(Tail(text))
    ELSE text

UpperToken(tok) ==
    CASE tok = "white" -> "WHITE"
      [] tok = "green" -> "GREEN"
      [] tok = "amber" -> "AMBER"
      [] tok = "red" -> "RED"
      [] tok = "clear" -> "CLEAR"
      [] tok = "tlp" -> "TLP"
      [] tok = "custom-stmt" -> "CUSTOM-STMT"
      [] OTHER -> tok

\* str.upper()
Upper(text) == [i \in DOMAIN text |-> UpperToken(text[i])]

\* tag.startswith('tlp:')
StartsWithTlp(tag) == Len(tag) >= 2 /\ tag[1] = "tlp" /\ tag[2] = ":"

----
\* stix1_mapping.TLP_order: the fixed order of the four sensitivity levels.
TLP_order == <<[k |-> <<"WHITE">>, v |-> 1], [k |-> <<"GREEN">>, v |-> 2],
               [k |-> <<"AMBER">>, v |-> 3], [k |-> <<"RED">>, v |-> 4]>>

\* stix1_mapping.galaxy_types_mapping: galaxy type -> handler family.
galaxy_types_mapping == <<[k |-> "mitre-attack-pattern", v |-> "attack_pattern"],
                          [k |-> "mitre-course-of-action", v |-> "course_of_action"],
                          [k |-> "threat-actor", v |-> "threat_actor"]>>

\* stix1_mapping.attribute_types_mapping: attribute type -> producer.
attribute_types_mapping == <<[k |-> "AS", v |-> "_parse_autonomous_system_attribute"],
                             [k |-> "domain|ip", v |-> "_parse_domain_ip_attribute"],
                             [k |-> "ip-dst", v |-> "_parse_ip_attribute"],
                             [k |-> "snort", v |-> "_parse_snort_attribute"],
                             [k |-> "yara", v |-> "_parse_yara_attribute"],
                             [k |-> "vulnerability", v |-> "_parse_vulnerability_attribute"]>>

----
\* Marking resolution of the nested target.

\* _fetch_colors
FetchColors(tags) == [i \in DOMAIN tags |-> Upper(LastSegment(tags[i]))]

RECURSIVE SetColorLoop(_, _, _)
\* the loop of _set_color: a colour TLP_order does not hold raises KeyError
SetColorLoop(colors, tlp_color, color_value) ==
    IF colors = <<>>
    THEN [exc |-> color_value = <<>>, color |-> color_value]
    ELSE IF ~Has(TLP_order, Head(colors))
         THEN [exc |-> TRUE, color |-> <<>>]
         ELSE IF Get(TLP_order, Head(colors)) > tlp_color
              THEN SetColorLoop(Tail(colors), Get(TLP_order, Head(colors)), Head(colors))
              ELSE SetColorLoop(Tail(colors), tlp_color, color_value)

\* _set_color
SetColor(colors) == SetColorLoop(colors, 0, <<>>)

TlpMarking(color) == [structure |-> "TLPMarkingStructure", value |-> color]

SimpleMarking(tag) == [structure |-> "SimpleMarkingStructure", value |-> tag]

\* _set_handling: [exc, marking_structures]
SetHandling(tags) ==
    LET tlp_tags == SelectSeq(tags, StartsWithTlp)
        simple_tags == SelectSeq(tags, LAMBDA tag : ~StartsWithTlp(tag))
        color == SetColor(FetchColors(tlp_tags))
        simple == [i \in DOMAIN simple_tags |-> SimpleMarking(simple_tags[i])]
    IN  IF tlp_tags # <<>> /\ color.exc
        THEN [exc |-> TRUE, marking_structures |-> <<>>]
        ELSE [exc |-> FALSE,
              marking_structures |->
                  (IF tlp_tags # <<>> THEN <<TlpMarking(color.color)>> ELSE <<>>) \o simple]

NoHandling == <<>>

----
\* Descriptor entities and relationship handles of the nested target.

\* a handle naming the galaxy instead of the descriptor
CreateRelatedTtpByName(ttp_id, category) ==
    [wrapper |-> "RelatedTTP", idref |-> <<"TTP", 0>>, relationship |-> category]

\* _create_related_ttp
CreateRelatedTtp(ttp_id, category) ==
    [wrapper |-> "RelatedTTP", idref |-> ttp_id, relationship |-> category]

\* _create_related_coa
CreateRelatedCoa(coa_id, category) ==
    [wrapper |-> "RelatedCOA", idref |-> coa_id, relationship |-> category]

\* _create_coa_taken
CreateCoaTaken(coa_id) ==
    [wrapper |-> "COATaken", idref |-> coa_id, relationship |-> "taken"]

\* _create_related_threat_actor
CreateRelatedThreatActor(ta_id, category) ==
    [wrapper |-> "RelatedThreatActor", idref |-> ta_id, relationship |-> category]

\* _create_ttp_from_galaxy
CreateTtpFromGalaxy(galaxy_name, uuid) ==
    [entity |-> "TTP", id |-> <<"TTP", uuid>>, title |-> galaxy_name, content |-> <<>>]

\* _parse_attack_pattern_galaxy, _parse_malware_galaxy, _parse_tool_galaxy,
\* _parse_vulnerability_galaxy: the behaviour placed in the TTP
ParseFeatureGalaxy(feature, cluster, ttp) ==
    [ttp EXCEPT !.content = <<feature, cluster.uuid, cluster.value>>]

\* _create_course_of_action_from_galaxy
CreateCourseOfActionFromGalaxy(cluster) ==
    [entity |-> "CourseOfAction", id |-> <<"CourseOfAction", cluster.uuid>>,
     title |-> cluster.value, content |-> <<>>]

\* _create_threat_actor_from_galaxy
CreateThreatActorFromGalaxy(cluster) ==
    [entity |-> "ThreatActor", id |-> <<"ThreatActor", cluster.uuid>>,
     title |-> cluster.value, content |-> <<>>]

RECURSIVE GetRelatedTtpsLoop(_, _, _, _, _)
GetRelatedTtpsLoop(cache, related_ttps, clusters, galaxy, feature) ==
    IF clusters = <<>>
    THEN [ttps |-> cache, related_ttps |-> related_ttps]
    ELSE LET cluster == Head(clusters)
             cluster_uuid == cluster.uuid
         IN  IF Has(cache, cluster_uuid)
             THEN GetRelatedTtpsLoop(
                      cache,
                      Put(related_ttps, cluster_uuid,
                          CreateRelatedTtp(Get(cache, cluster_uuid).id, galaxy.name)),
                      Tail(clusters), galaxy, feature)
             ELSE LET ttp == ParseFeatureGalaxy(
                                 feature, cluster,
                                 CreateTtpFromGalaxy(galaxy.name, cluster_uuid))
                  IN  GetRelatedTtpsLoop(
                          Put(cache, cluster_uuid, ttp),
                          Put(related_ttps, cluster_uuid,
                              CreateRelatedTtp(ttp.id, galaxy.name)),
                          Tail(clusters), galaxy, feature)

\* _get_related_ttps: [ttps (the cache afterwards), related_ttps]
GetRelatedTtps(cache, galaxy, feature) ==
    GetRelatedTtpsLoop(cache, EmptyDict, galaxy.GalaxyCluster, galaxy, feature)

\* _handle_related_ttps without the test of line 711: the last relationship stays
RECURSIVE HandleRelatedTtpsLoopOverwriting(_, _)
HandleRelatedTtpsLoopOverwriting(ctx_ttp, items) ==
    IF items = <<>>
    THEN ctx_ttp
    ELSE HandleRelatedTtpsLoopOverwriting(Put(ctx_ttp, Head(items).k, Head(items).v),
                                          Tail(items))

RECURSIVE HandleRelatedTtpsLoop(_, _)
HandleRelatedTtpsLoop(ctx_ttp, items) ==
    IF items = <<>>
    THEN ctx_ttp
    ELSE HandleRelatedTtpsLoop(
             IF Has(ctx_ttp, Head(items).k)
             THEN ctx_ttp
             ELSE Put(ctx_ttp, Head(items).k, Head(items).v),
             Tail(items))

\* _handle_related_ttps: contextualised_data['ttp'] afterwards
HandleRelatedTtps(ctx_ttp, related_ttps) == HandleRelatedTtpsLoop(ctx_ttp, related_ttps)

\* _quick_fetch_tag_names: misp-galaxy:<type>="<value>" of every cluster
QuickFetchTagNames(galaxy) ==
    [i \in DOMAIN galaxy.GalaxyCluster |->
        <<"misp-galaxy", ":", galaxy.type, "=\"">> \o galaxy.GalaxyCluster[i].value \o <<"\"">>]

----
\* Cluster resolution, event scope.  s is the instance: [errors, warnings,
\* contextualised_data, courses_of_action, threat_actors, ttps, incident, exc],
\* exc telling that an exception is being raised.

\* _parse_attack_pattern_event_galaxy (and the malware, tool, vulnerability ones)
ParseTtpEventGalaxy(s, galaxy, feature) ==
    LET r == GetRelatedTtps(s.ttps, galaxy, feature)
    IN  [s EXCEPT !.ttps = r.ttps,
                  !.contextualised_data.ttp = HandleRelatedTtps(@, r.related_ttps)]

RECURSIVE ParseCourseOfActionEventLoop(_, _)
ParseCourseOfActionEventLoop(s, clusters) ==
    IF clusters = <<>>
    THEN s
    ELSE LET cluster == Head(clusters)
             cluster_uuid == cluster.uuid
         IN  IF Has(s.courses_of_action, cluster_uuid)
             THEN ParseCourseOfActionEventLoop(
                      [s EXCEPT !.contextualised_data.course_of_action =
                          Put(@, cluster_uuid,
                              CreateCoaTaken(Get(s.courses_of_action, cluster_uuid).id))],
                      Tail(clusters))
             ELSE LET course_of_action == CreateCourseOfActionFromGalaxy(cluster)
                  IN  ParseCourseOfActionEventLoop(
                          [s EXCEPT !.contextualised_data.course_of_action =
                                        Put(@, cluster_uuid, CreateCoaTaken(course_of_action.id)),
                                    !.courses_of_action =
                                        Put(@, cluster_uuid, course_of_action)],
                          Tail(clusters))

\* _parse_course_of_action_event_galaxy
ParseCourseOfActionEventGalaxy(s, galaxy) ==
    ParseCourseOfActionEventLoop(s, galaxy.GalaxyCluster)

RECURSIVE ParseThreatActorLoop(_, _, _)
ParseThreatActorLoop(s, clusters, galaxy) ==
    IF clusters = <<>>
    THEN s
    ELSE LET cluster == Head(clusters)
             cluster_uuid == cluster.uuid
         IN  IF Has(s.contextualised_data.threat_actor, cluster_uuid)
             THEN ParseThreatActorLoop(s, Tail(clusters), galaxy)
             ELSE IF Has(s.threat_actors, cluster_uuid)
                  THEN ParseThreatActorLoop(
                           [s EXCEPT !.contextualised_data.threat_actor =
                               Put(@, cluster_uuid,
                                   CreateRelatedThreatActor(
                                       Get(s.threat_actors, cluster_uuid).id, galaxy.name))],
                           Tail(clusters), galaxy)
                  ELSE LET threat_actor == CreateThreatActorFromGalaxy(cluster)
                       IN  ParseThreatActorLoop(
                               [s EXCEPT !.contextualised_data.threat_actor =
                                             Put(@, cluster_uuid,
                                                 CreateRelatedThreatActor(
                                                     threat_actor.id, galaxy.name)),
                                         !.threat_actors = Put(@, cluster_uuid, threat_actor)],
                               Tail(clusters), galaxy)

\* _parse_threat_actor_galaxy
ParseThreatActorGalaxy(s, galaxy) == ParseThreatActorLoop(s, galaxy.GalaxyCluster, galaxy)

\* getattr(self, to_call.format('event'))(galaxy)
CallEventGalaxyHandler(s, feature, galaxy) ==
    CASE feature = "course_of_action" -> ParseCourseOfActionEventGalaxy(s, galaxy)
      [] feature = "threat_actor" -> ParseThreatActorGalaxy(s, galaxy)
      [] OTHER -> ParseTtpEventGalaxy(s, galaxy, feature)

\* the tuple of all the tag names, those of the galaxies included
TagsAll(tags, tag_names) == tags

\* tuple(tag.name for tag in tags if tag.name not in tag_names)
TagsNotIn(tags, tag_names) == SelectSeq(tags, LAMBDA tag : tag \notin Range(tag_names))

RECURSIVE HandleTagsAndGalaxiesLoop(_, _, _)
HandleTagsAndGalaxiesLoop(s, galaxies, tag_names) ==
    IF galaxies = <<>>
    THEN [s |-> s, tag_names |-> tag_names]
    ELSE LET galaxy == Head(galaxies)
             galaxy_type == galaxy.type
         IN  IF Has(galaxy_types_mapping, galaxy_type)
             THEN HandleTagsAndGalaxiesLoop(
                      CallEventGalaxyHandler(s, Get(galaxy_types_mapping, galaxy_type), galaxy),
                      Tail(galaxies), tag_names \o QuickFetchTagNames(galaxy))
             ELSE HandleTagsAndGalaxiesLoop(
                      [s EXCEPT !.warnings =
                          @ \cup {<<galaxy_type, "galaxy in event not mapped.">>}],
                      Tail(galaxies), tag_names)

\* _handle_tags_and_galaxies: [s, tags]
HandleTagsAndGalaxies(s, event) ==
    IF event.Galaxy # <<>>
    THEN LET r == HandleTagsAndGalaxiesLoop(s, event.Galaxy, <<>>)
         IN  [s |-> r.s, tags |-> TagsNotIn(event.tags, r.tag_names)]
    ELSE [s |-> s, tags |-> event.tags]

----
\* Cluster resolution, attribute scope: [s, indicator].

\* _parse_attack_pattern_attribute_galaxy (and the malware, tool, vulnerability ones)
ParseTtpAttributeGalaxy(s, galaxy, indicator, feature) ==
    LET r == GetRelatedTtps(s.ttps, galaxy, feature)
    IN  [s |-> [s EXCEPT !.ttps = r.ttps],
         indicator |-> [indicator EXCEPT !.indicated_ttps = @ \o Values(r.related_ttps)]]

RECURSIVE ParseCourseOfActionAttributeLoop(_, _, _, _)
ParseCourseOfActionAttributeLoop(s, clusters, galaxy, indicator) ==
    IF clusters = <<>>
    THEN [s |-> s, indicator |-> indicator]
    ELSE LET cluster == Head(clusters)
             cluster_uuid == cluster.uuid
         IN  IF Has(s.courses_of_action, cluster_uuid)
             THEN ParseCourseOfActionAttributeLoop(
                      s, Tail(clusters), galaxy,
                      [indicator EXCEPT !.suggested_coas =
                          Append(@, CreateRelatedCoa(
                                        Get(s.courses_of_action, cluster_uuid).id,
                                        galaxy.name))])
             ELSE LET course_of_action == CreateCourseOfActionFromGalaxy(cluster)
                  IN  ParseCourseOfActionAttributeLoop(
                          [s EXCEPT !.courses_of_action =
                              Put(@, cluster_uuid, course_of_action)],
                          Tail(clusters), galaxy,
                          [indicator EXCEPT !.suggested_coas =
                              Append(@, CreateRelatedCoa(course_of_action.id, galaxy.name))])

\* _parse_course_of_action_attribute_galaxy
ParseCourseOfActionAttributeGalaxy(s, galaxy, indicator) ==
    ParseCourseOfActionAttributeLoop(s, galaxy.GalaxyCluster, galaxy, indicator)

\* getattr(self, to_call.format('attribute'))(galaxy, indicator); the one handler of
\* threat actors, _parse_threat_actor_galaxy(self, galaxy), takes no indicator: TypeError
CallAttributeGalaxyHandler(s, feature, galaxy, indicator) ==
    CASE feature = "course_of_action" -> ParseCourseOfActionAttributeGalaxy(s, galaxy, indicator)
      [] feature = "threat_actor" -> [s |-> [s EXCEPT !.exc = TRUE], indicator |-> indicator]
      [] OTHER -> ParseTtpAttributeGalaxy(s, galaxy, indicator, feature)

RECURSIVE HandleAttributeTagsAndGalaxiesLoop(_, _, _, _, _)
HandleAttributeTagsAndGalaxiesLoop(s, galaxies, attribute, indicator, tag_names) ==
    IF galaxies = <<>> \/ s.exc
    THEN [s |-> s, indicator |-> indicator, tag_names |-> tag_names]
    ELSE LET galaxy == Head(galaxies)
             galaxy_type == galaxy.type
         IN  IF Has(galaxy_types_mapping, galaxy_type)
             THEN LET r == CallAttributeGalaxyHandler(
                               s, Get(galaxy_types_mapping, galaxy_type), galaxy, indicator)
                  IN  HandleAttributeTagsAndGalaxiesLoop(
                          r.s, Tail(galaxies), attribute, r.indicator,
                          tag_names \o QuickFetchTagNames(galaxy))
             ELSE HandleAttributeTagsAndGalaxiesLoop(
                      [s EXCEPT !.warnings =
                          @ \cup {<<galaxy_type, "galaxy in", attribute.type,
                                    "attribute not mapped.">>}],
                      Tail(galaxies), attribute, indicator, tag_names)

\* _handle_attribute_tags_and_galaxies: [s, indicator, tags]
HandleAttributeTagsAndGalaxies(s, attribute, indicator) ==
    IF attribute.Galaxy # <<>>
    THEN LET r == HandleAttributeTagsAndGalaxiesLoop(
                      s, attribute.Galaxy, attribute, indicator, <<>>)
         IN  [s |-> r.s, indicator |-> r.indicator,
              tags |-> TagsNotIn(attribute.tags, r.tag_names)]
    ELSE [s |-> s, indicator |-> indicator, tags |-> attribute.tags]

----
\* Item conversion of the nested target.

\* _create_observable
CreateObservable(object_type, properties, attribute_uuid, feature) ==
    [id |-> <<"Observable", attribute_uuid>>,
     object |-> [id |-> <<feature, attribute_uuid>>, type |-> object_type,
                 properties |-> properties],
     observable_composition |-> <<>>]

\* _create_indicator_from_attribute
CreateIndicatorFromAttribute(attribute) ==
    [id |-> <<"Indicator", attribute.uuid>>, observable |-> <<>>,
     test_mechanisms |-> <<>>,
     indicated_ttps |-> <<>>, suggested_coas |-> <<>>, handling |-> NoHandling]

\* RelatedIndicator(indicator, relationship=...)
RelatedIndicator(indicator, relationship) ==
    [wrapper |-> "RelatedIndicator", item |-> indicator, relationship |-> relationship]

\* RelatedObservable(observable, relationship=...)
RelatedObservable(observable, relationship) ==
    [wrapper |-> "RelatedObservable", item |-> observable, relationship |-> relationship]

\* _handle_attribute reading the tags and galaxies of the attribute whatever to_ids
HandleAttributeAnnotatingAll(s, attribute, observable) ==
    LET indicator == [CreateIndicatorFromAttribute(attribute)
                         EXCEPT !.observable = <<observable>>]
        r == HandleAttributeTagsAndGalaxies(s, attribute, indicator)
        handling == SetHandling(r.tags)
    IN  IF r.s.exc
        THEN r.s
        ELSE IF r.tags # <<>> /\ handling.exc
             THEN [r.s EXCEPT !.exc = TRUE]
             ELSE IF attribute.to_ids
                  THEN [r.s EXCEPT !.incident.related_indicators =
                           Append(@, RelatedIndicator(
                               [r.indicator EXCEPT !.handling =
                                   IF r.tags # <<>>
                                   THEN handling.marking_structures
                                   ELSE NoHandling],
                               attribute.category))]
                  ELSE [r.s EXCEPT !.incident.related_observables =
                           Append(@, RelatedObservable(observable, attribute.category))]

\* _handle_attribute
HandleAttribute(s, attribute, observable) ==
    IF attribute.to_ids
    THEN LET indicator == [CreateIndicatorFromAttribute(attribute)
                              EXCEPT !.observable = <<observable>>]
             r == HandleAttributeTagsAndGalaxies(s, attribute, indicator)
             handling == SetHandling(r.tags)
         IN  IF r.s.exc
             THEN r.s
             ELSE IF r.tags # <<>> /\ handling.exc
                  THEN [r.s EXCEPT !.exc = TRUE]
                  ELSE [r.s EXCEPT !.incident.related_indicators =
                           Append(@, RelatedIndicator(
                               [r.indicator EXCEPT !.handling =
                                   IF r.tags # <<>>
                                   THEN handling.marking_structures
                                   ELSE NoHandling],
                               attribute.category))]
    ELSE [s EXCEPT !.incident.related_observables =
             Append(@, RelatedObservable(observable, attribute.category))]

\* _parse_custom_attribute
ParseCustomAttribute(s, attribute) ==
    HandleAttribute(
        s, attribute,
        CreateObservable("Custom", <<[name |-> attribute.type, value |-> attribute.value]>>,
                         attribute.uuid, "Custom"))

\* _create_autonomous_system_object
CreateAutonomousSystemObject(AS) ==
    [name |-> IF AS # <<>> /\ Head(AS) = "AS" THEN "handle" ELSE "number", value |-> AS]

\* _parse_autonomous_system_attribute
ParseAutonomousSystemAttribute(s, attribute) ==
    HandleAttribute(
        s, attribute,
        CreateObservable("AS", <<CreateAutonomousSystemObject(attribute.value)>>,
                         attribute.uuid, "AS"))

\* _parse_ip_attribute
ParseIpAttribute(s, attribute) ==
    HandleAttribute(
        s, attribute,
        CreateObservable("Address", <<[name |-> "address_value", value |-> attribute.value]>>,
                         attribute.uuid, "Address"))

\* attribute.value.split('|'): the segments between the bars
RECURSIVE SplitOnBar(_, _)
SplitOnBar(text, segment) ==
    IF text = <<>>
    THEN <<segment>>
    ELSE IF Head(text) = "|"
         THEN <<segment>> \o SplitOnBar(Tail(text), <<>>)
         ELSE SplitOnBar(Tail(text), Append(segment, Head(text)))

\* _parse_domain_ip_attribute: the unpacking raises ValueError unless the value
\* holds one bar; both members are made by _create_observable with attribute.uuid
ParseDomainIpAttribute(s, attribute) ==
    LET segments == SplitOnBar(attribute.value, <<>>)
    IN  IF Len(segments) # 2
        THEN [s EXCEPT !.exc = TRUE]
        ELSE LET domain_observable ==
                     CreateObservable("DomainName",
                                      <<[name |-> "value", value |-> segments[1]]>>,
                                      attribute.uuid, "DomainName")
                 address_observable ==
                     CreateObservable("Address",
                                      <<[name |-> "address_value", value |-> segments[2]]>>,
                                      attribute.uuid, "Address")
             IN  HandleAttribute(
                     s, attribute,
                     [id |-> <<"ObservableComposition", attribute.uuid>>,
                      object |-> [id |-> <<"none", 0>>, type |-> "none", properties |-> <<>>],
                      observable_composition |-> <<domain_observable, address_observable>>])

\* _parse_test_mechanism
ParseTestMechanism(s, attribute, test_mechanism) ==
    LET indicator == CreateIndicatorFromAttribute(attribute)
        r == HandleAttributeTagsAndGalaxies(s, attribute, indicator)
        handling == SetHandling(r.tags)
    IN  IF r.s.exc
        THEN r.s
        ELSE IF r.tags # <<>> /\ handling.exc
             THEN [r.s EXCEPT !.exc = TRUE]
             ELSE [r.s EXCEPT !.incident.related_indicators =
                      Append(@, RelatedIndicator(
                          [r.indicator EXCEPT !.handling =
                                                  IF r.tags # <<>>
                                                  THEN handling.marking_structures
                                                  ELSE NoHandling,
                                              !.test_mechanisms = <<test_mechanism>>],
                          attribute.category))]

\* _parse_snort_attribute: without to_ids the call self._parse_custom_attribute(self,
\* attribute) hands the bound method one argument too many: TypeError
ParseSnortAttribute(s, attribute) ==
    IF attribute.to_ids
    THEN ParseTestMechanism(s, attribute,
                            [mechanism |-> "SnortTestMechanism", rules |-> attribute.value])
    ELSE [s EXCEPT !.exc = TRUE]

\* _parse_yara_attribute: the same call with one argument too many
ParseYaraAttribute(s, attribute) ==
    IF attribute.to_ids
    THEN ParseTestMechanism(s, attribute,
                            [mechanism |-> "YaraTestMechanism", rules |-> attribute.value])
    ELSE [s EXCEPT !.exc = TRUE]

\* _create_ttp: [exc, ttp]
CreateTtp(attribute) ==
    LET handling == SetHandling(attribute.tags)
    IN  [exc |-> attribute.tags # <<>> /\ handling.exc,
         ttp |-> [entity |-> "TTP", id |-> <<"TTP", attribute.uuid>>,
                  title |-> attribute.type,
                  content |-> <<"exploit_target", attribute.uuid, attribute.value>>]]

\* _parse_vulnerability_attribute
ParseVulnerabilityAttribute(s, attribute) ==
    LET r == CreateTtp(attribute)
        related_ttp == CreateRelatedTtp(r.ttp.id, attribute.type)
    IN  IF r.exc
        THEN [s EXCEPT !.exc = TRUE]
        ELSE [s EXCEPT !.contextualised_data.ttp =
                           HandleRelatedTtps(@, <<[k |-> attribute.uuid, v |-> related_ttp]>>),
                       !.ttps = Put(@, attribute.uuid, r.ttp)]

\* getattr(self, stix1_mapping.attribute_types_mapping[attribute_type])(attribute)
CallAttributeHandler(s, to_call, attribute) ==
    CASE to_call = "_parse_autonomous_system_attribute" ->
             ParseAutonomousSystemAttribute(s, attribute)
      [] to_call = "_parse_ip_attribute" -> ParseIpAttribute(s, attribute)
      [] to_call = "_parse_domain_ip_attribute" -> ParseDomainIpAttribute(s, attribute)
      [] to_call = "_parse_snort_attribute" -> ParseSnortAttribute(s, attribute)
      [] to_call = "_parse_yara_attribute" -> ParseYaraAttribute(s, attribute)
      [] to_call = "_parse_vulnerability_attribute" -> ParseVulnerabilityAttribute(s, attribute)
      [] OTHER -> [s EXCEPT !.exc = TRUE]

ErrorEntry(item_type, kind, value) ==
    [text |-> "Error with the", type |-> item_type, kind |-> kind, value |-> value]

\* the turn without the except clause's append: the failure is swallowed
ResolveOneAttributeSilently(s, attribute) ==
    LET attribute_type == attribute.type
        r == IF Has(attribute_types_mapping, attribute_type)
             THEN CallAttributeHandler(s, Get(attribute_types_mapping, attribute_type),
                                       attribute)
             ELSE ParseCustomAttribute(s, attribute)
    IN  [r EXCEPT !.exc = FALSE]

\* the else branch of the turn, after _parse_custom_attribute returned c: the warning
\* is added unless the call raised
WarnNotMapped(c, attribute_type) ==
    IF c.exc
    THEN c
    ELSE [c EXCEPT !.warnings =
             @ \cup {<<"MISP Attribute type", attribute_type, "not mapped.">>}]

\* the except clause of the turn, r being the instance as the try block left it
CatchAttributeError(r, attribute) ==
    IF r.exc
    THEN [r EXCEPT !.exc = FALSE,
                   !.errors = Append(@, ErrorEntry(attribute.type, "attribute",
                                                   attribute.value))]
    ELSE r

\* one turn of the loop of _resolve_attributes
ResolveOneAttribute(s, attribute) ==
    CatchAttributeError(
        IF Has(attribute_types_mapping, attribute.type)
        THEN CallAttributeHandler(s, Get(attribute_types_mapping, attribute.type), attribute)
        ELSE WarnNotMapped(ParseCustomAttribute(s, attribute), attribute.type),
        attribute)

----
\* Composite objects of the nested target.

\* stix1_mapping.objects_mapping: object name -> producer.
objects_mapping == <<[k |-> "asn", v |-> "_parse_asn_object"]>>

\* the object relations of the attributes, each once, in the order met
RECURSIVE RelationsOf(_, _)
RelationsOf(attributes, seen) ==
    IF attributes = <<>>
    THEN seen
    ELSE RelationsOf(Tail(attributes),
                     IF Head(attributes).object_relation \in Range(seen)
                     THEN seen
                     ELSE Append(seen, Head(attributes).object_relation))

ValuesOfRelation(attributes, relation) ==
    LET of == SelectSeq(attributes, LAMBDA a : a.object_relation = relation)
    IN  [i \in DOMAIN of |-> of[i].value]

\* _extract_multiple_object_attributes: dict relation -> list of values
ExtractMultipleObjectAttributes(attributes) ==
    LET relations == RelationsOf(attributes, <<>>)
    IN  [i \in DOMAIN relations |->
            [k |-> relations[i], v |-> ValuesOfRelation(attributes, relations[i])]]

\* _fetch_ids_flags
FetchIdsFlags(attributes) == \E i \in DOMAIN attributes : attributes[i].to_ids

\* _fetch_objects_mapping_function
FetchObjectsMappingFunction(object_name) ==
    IF Has(objects_mapping, object_name)
    THEN Get(objects_mapping, object_name)
    ELSE "_parse_custom_object"

\* the custom properties of _parse_asn_object: the relations left, value by value
AsnCustomProperties(attributes) ==
    LET left == SelectSeq(attributes, LAMBDA e : e.k \notin {"asn", "description"})
    IN  Concat([i \in DOMAIN left |->
                   [j \in DOMAIN left[i].v |-> [name |-> left[i].k, value |-> left[i].v[j]]]])

\* _parse_asn_object: [s, observable]; attributes.pop('asn') raises KeyError
ParseAsnObject(s, misp_object) ==
    LET attributes == ExtractMultipleObjectAttributes(misp_object.attributes)
    IN  IF ~Has(attributes, "asn")
        THEN [s |-> [s EXCEPT !.exc = TRUE], observable |-> <<>>]
        ELSE [s |-> s,
              observable |->
                  CreateObservable(
                      "AS",
                      <<CreateAutonomousSystemObject(Get(attributes, "asn")[1])>>
                          \o (IF Has(attributes, "description")
                              THEN <<[name |-> "name", value |-> Get(attributes, "description")[1]]>>
                              ELSE <<>>)
                          \o AsnCustomProperties(attributes),
                      misp_object.uuid, "AS")]

\* _parse_custom_object: [s, observable]
ParseCustomObject(s, misp_object) ==
    [s |-> [s EXCEPT !.warnings =
                @ \cup {<<"MISP Object name", misp_object.name, "not mapped.">>}],
     observable |->
         CreateObservable(
             "Custom",
             [i \in DOMAIN misp_object.attributes |->
                 [name |-> misp_object.attributes[i].object_relation,
                  value |-> misp_object.attributes[i].value]],
             misp_object.uuid, "Custom")]

\* getattr(self, to_call)(misp_object)
CallObjectHandler(s, to_call, misp_object) ==
    CASE to_call = "_parse_asn_object" -> ParseAsnObject(s, misp_object)
      [] OTHER -> ParseCustomObject(s, misp_object)

\* the names of the tags of the attributes of an object
ObjectTagNames(misp_object) ==
    UNION {Range(misp_object.attributes[i].tags) : i \in DOMAIN misp_object.attributes}

\* the orders in which a Python set may be iterated
Orders(set) == {seq \in [1..Cardinality(set) -> set] : Range(seq) = set}

\* _handle_object_tags_and_galaxies: [exc, tags]; an attribute holding a galaxy reads
\* the undefined name galaxy: NameError
HandleObjectTagsAndGalaxies(misp_object, order) ==
    [exc |-> \E i \in DOMAIN misp_object.attributes : misp_object.attributes[i].Galaxy # <<>>,
     tags |-> order]

\* _create_indicator_from_object
CreateIndicatorFromObject(misp_object) ==
    [id |-> <<"Indicator", misp_object.uuid>>, observable |-> <<>>,
     test_mechanisms |-> <<>>,
     indicated_ttps |-> <<>>, suggested_coas |-> <<>>, handling |-> NoHandling]

\* _handle_misp_object_with_context
HandleMispObjectWithContext(s, misp_object, observable, order) ==
    LET indicator == [CreateIndicatorFromObject(misp_object) EXCEPT !.observable = <<observable>>]
        r == HandleObjectTagsAndGalaxies(misp_object, order)
        handling == SetHandling(r.tags)
    IN  IF r.exc \/ (r.tags # <<>> /\ handling.exc)
        THEN [s EXCEPT !.exc = TRUE]
        ELSE [s EXCEPT !.incident.related_indicators =
                 Append(@, RelatedIndicator(
                     [indicator EXCEPT !.handling =
                         IF r.tags # <<>> THEN handling.marking_structures ELSE NoHandling],
                     misp_object.meta_category))]

\* _handle_misp_object
HandleMispObject(s, observable, category) ==
    [s EXCEPT !.incident.related_observables =
        Append(@, RelatedObservable(observable, category))]

\* one turn of the loop of _resolve_objects: no exception is caught here, the try
\* and except lines being commented out
ResolveOneObject(s, misp_object, order) ==
    IF misp_object.name = "original-imported-file"
    THEN s
    ELSE LET to_ids == FetchIdsFlags(misp_object.attributes)
             r == CallObjectHandler(s, FetchObjectsMappingFunction(misp_object.name),
                                    misp_object)
         IN  IF r.s.exc
             THEN r.s
             ELSE IF to_ids
                  THEN HandleMispObjectWithContext(r.s, misp_object, r.observable, order)
                  ELSE HandleMispObject(r.s, r.observable, misp_object.meta_category)

----
\* The root container and the package.

\* _create_incident with incident_reported set whatever the event's published flag
CreateIncidentAlwaysReported(event) ==
    [id |-> <<"Incident", event.uuid>>, handling |-> NoHandling,
     time |-> [incident_reported |-> <<event.publish_timestamp>>],
     related_indicators |-> <<>>, related_observables |-> <<>>,
     leveraged_ttps |-> <<>>, coa_taken |-> <<>>, attributed_threat_actors |-> <<>>]

\* _create_incident; incident_reported is <<>> while unset
CreateIncident(event) ==
    [id |-> <<"Incident", event.uuid>>, handling |-> NoHandling,
     time |-> [incident_reported |-> IF event.published
                                     THEN <<event.publish_timestamp>>
                                     ELSE <<>>],
     related_indicators |-> <<>>, related_observables |-> <<>>,
     leveraged_ttps |-> <<>>, coa_taken |-> <<>>, attributed_threat_actors |-> <<>>]

\* _create_stix_package
CreateStixPackage(event) ==
    [id |-> <<"STIXPackage", event.uuid>>, courses_of_action |-> <<>>,
     threat_actors |-> <<>>, ttps |-> <<>>, incidents |-> <<>>]

NoEvent ==
    [uuid |-> 0, published |-> FALSE, publish_timestamp |-> 0,
     Galaxy |-> <<>>, tags |-> <<>>, Attribute |-> <<>>, Object |-> <<>>]

Self ==
    [errors |-> errors, warnings |-> warnings,
     contextualised_data |-> contextualised_data,
     courses_of_action |-> courses_of_action, threat_actors |-> threat_actors,
     ttps |-> ttps, incident |-> incident, exc |-> FALSE]

\* the instance fields take the values of s
Becomes(s) ==
    /\ errors' = s.errors
    /\ warnings' = s.warnings
    /\ contextualised_data' = s.contextualised_data
    /\ courses_of_action' = s.courses_of_action
    /\ threat_actors' = s.threat_actors
    /\ ttps' = s.ttps
    /\ incident' = s.incident

\* __init__
Init1 ==
    /\ errors = <<>>
    /\ warnings = {}
    /\ contextualised_data =
           [ttp |-> EmptyDict, course_of_action |-> EmptyDict, threat_actor |-> EmptyDict]
    /\ courses_of_action = EmptyDict
    /\ threat_actors = EmptyDict
    /\ ttps = EmptyDict
    /\ misp_event = NoEvent
    /\ incident = CreateIncident(NoEvent)
    /\ stix_package = CreateStixPackage(NoEvent)
    /\ pc = "idle"
    /\ nparsed = 0
    /\ at_call = [ttps |-> {}, courses_of_action |-> {}, threat_actors |-> {},
                  errors |-> 0, warnings |-> {}]

\* parse_misp_event emptying the three caches before it reads the event
ParseMispEventResettingCaches(event) ==
    /\ pc \in {"idle", "raised"}
    /\ nparsed < MaxEvents
    /\ LET s0 == [Self EXCEPT !.incident = CreateIncident(event),
                              !.ttps = EmptyDict,
                              !.courses_of_action = EmptyDict,
                              !.threat_actors = EmptyDict]
           r == HandleTagsAndGalaxies(s0, event)
           handling == SetHandling(r.tags)
       IN  /\ Becomes(IF r.tags # <<>> /\ ~handling.exc
                      THEN [r.s EXCEPT !.incident.handling = handling.marking_structures]
                      ELSE r.s)
           /\ pc' = IF r.tags # <<>> /\ handling.exc THEN "raised" ELSE "items"
    /\ misp_event' = event
    /\ stix_package' = CreateStixPackage(event)
    /\ nparsed' = nparsed + 1
    /\ at_call' = [ttps |-> Keys(ttps), courses_of_action |-> Keys(courses_of_action),
                   threat_actors |-> Keys(threat_actors),
                   errors |-> Len(errors), warnings |-> warnings]
    /\ UNCHANGED <<vars2, vars3>>

\* parse_misp_event up to the loops over the items: the package, the incident, the
\* event's galaxies and tags.  An exception of _set_handling leaves the call.
ParseMispEvent(event) ==
    /\ pc \in {"idle", "raised"}
    /\ nparsed < MaxEvents
    /\ LET s0 == [Self EXCEPT !.incident = CreateIncident(event)]
           r == HandleTagsAndGalaxies(s0, event)
           handling == SetHandling(r.tags)
       IN  /\ Becomes(IF r.tags # <<>> /\ ~handling.exc
                      THEN [r.s EXCEPT !.incident.handling = handling.marking_structures]
                      ELSE r.s)
           /\ pc' = IF r.tags # <<>> /\ handling.exc THEN "raised" ELSE "items"
    /\ misp_event' = event
    /\ stix_package' = CreateStixPackage(event)
    /\ nparsed' = nparsed + 1
    /\ at_call' = [ttps |-> Keys(ttps), courses_of_action |-> Keys(courses_of_action),
                   threat_actors |-> Keys(threat_actors),
                   errors |-> Len(errors), warnings |-> warnings]
    /\ UNCHANGED <<vars2, vars3>>

\* the attribute the event holds at the next place, with the place's UUID
NextAttribute(shape) == [shape EXCEPT !.uuid = Len(misp_event.Attribute) + 1]

\* _resolve_attributes, one attribute
ResolveAttribute(shape) ==
    /\ pc = "items"
    /\ misp_event.Object = <<>>
    /\ Len(misp_event.Attribute) < MaxAttributes
    /\ Becomes(ResolveOneAttribute(Self, NextAttribute(shape)))
    /\ misp_event' = [misp_event EXCEPT !.Attribute = Append(@, NextAttribute(shape))]
    /\ UNCHANGED <<stix_package, pc, nparsed, at_call>>
    /\ UNCHANGED <<vars2, vars3>>


\* the object the event holds at the next place, with the place's UUID
NextObject(shape) == [shape EXCEPT !.uuid = 201 + Len(misp_event.Object)]

\* _resolve_objects, one object; an exception leaves parse_misp_event
ResolveObject(shape, order) ==
    /\ pc = "items"
    /\ Len(misp_event.Object) < MaxObjects
    /\ order \in Orders(ObjectTagNames(shape))
    /\ LET s == ResolveOneObject(Self, NextObject(shape), order)
       IN  /\ Becomes(s)
           /\ pc' = IF s.exc THEN "raised" ELSE "items"
    /\ misp_event' = [misp_event EXCEPT !.Object = Append(@, NextObject(shape))]
    /\ UNCHANGED <<stix_package, nparsed, at_call>>
    /\ UNCHANGED <<vars2, vars3>>

\* parse_misp_event after _generate_stix_objects, without the loops that add the
\* cached descriptors to the package
FinishParseWithoutDescriptors ==
    /\ pc = "items"
    /\ incident' =
           [incident EXCEPT
               !.coa_taken = @ \o Values(contextualised_data.course_of_action),
               !.attributed_threat_actors = Values(contextualised_data.threat_actor),
               !.leveraged_ttps = @ \o Values(contextualised_data.ttp)]
    /\ stix_package' = [stix_package EXCEPT !.incidents = Append(@, incident')]
    /\ pc' = "idle"
    /\ UNCHANGED <<errors, warnings, contextualised_data, courses_of_action,
                   threat_actors, ttps, misp_event, nparsed, at_call>>
    /\ UNCHANGED <<vars2, vars3>>

\* parse_misp_event after _generate_stix_objects: the relationships of the event and
\* the cached descriptors go to the incident and the package
FinishParse ==
    /\ pc = "items"
    /\ incident' =
           [incident EXCEPT
               !.coa_taken = @ \o Values(contextualised_data.course_of_action),
               !.attributed_threat_actors = Values(contextualised_data.threat_actor),
               !.leveraged_ttps = @ \o Values(contextualised_data.ttp)]
    /\ stix_package' =
           [stix_package EXCEPT
               !.courses_of_action = @ \o Values(courses_of_action),
               !.threat_actors = @ \o Values(threat_actors),
               !.ttps = @ \o Values(ttps),
               !.incidents = Append(@, incident')]
    /\ pc' = "idle"
    /\ UNCHANGED <<errors, warnings, contextualised_data, courses_of_action,
                   threat_actors, ttps, misp_event, nparsed, at_call>>
    /\ UNCHANGED <<vars2, vars3>>

----
\* The bundle target.

NoRef == <<"none", 0>>

\* _create_identity_object
CreateIdentityObject(identity_id, orgname) ==
    [type |-> "identity", id |-> identity_id, name |-> orgname,
     created_by_ref |-> NoRef, object_refs |-> <<>>, object_marking_refs |-> <<>>]

\* _set_identity with the test on the instance's organisations left out
SetIdentityIgnoringOrgs(orgs, ids, objects, event) ==
    LET orgc == event.Orgc
        identity_id == <<"identity", orgc.uuid>>
    IN  IF identity_id \notin ids
        THEN [identity_id |-> identity_id, orgs |-> Append(orgs, orgc.uuid),
              objects |-> Append(objects, CreateIdentityObject(identity_id, orgc.name)),
              index |-> 1]
        ELSE [identity_id |-> identity_id, orgs |-> orgs, objects |-> objects, index |-> 0]

\* _set_identity with the test on the ids argument left out
SetIdentityIgnoringIds(orgs, ids, objects, event) ==
    LET orgc == event.Orgc
        identity_id == <<"identity", orgc.uuid>>
    IN  IF orgc.uuid \notin Range(orgs)
        THEN [identity_id |-> identity_id, orgs |-> Append(orgs, orgc.uuid),
              objects |-> Append(objects, CreateIdentityObject(identity_id, orgc.name)),
              index |-> 1]
        ELSE [identity_id |-> identity_id, orgs |-> orgs, objects |-> objects, index |-> 0]

\* _set_identity returning 0 for a new identity
SetIdentityIndexZero(orgs, ids, objects, event) ==
    LET orgc == event.Orgc
        identity_id == <<"identity", orgc.uuid>>
    IN  IF orgc.uuid \notin Range(orgs) /\ identity_id \notin ids
        THEN [identity_id |-> identity_id, orgs |-> Append(orgs, orgc.uuid),
              objects |-> Append(objects, CreateIdentityObject(identity_id, orgc.name)),
              index |-> 0]
        ELSE [identity_id |-> identity_id, orgs |-> orgs, objects |-> objects, index |-> 0]

\* _set_identity: [identity_id, orgs, objects, index]
SetIdentity(orgs, ids, objects, event) ==
    LET orgc == event.Orgc
        identity_id == <<"identity", orgc.uuid>>
    IN  IF orgc.uuid \notin Range(orgs) /\ identity_id \notin ids
        THEN [identity_id |-> identity_id, orgs |-> Append(orgs, orgc.uuid),
              objects |-> Append(objects, CreateIdentityObject(identity_id, orgc.name)),
              index |-> 1]
        ELSE [identity_id |-> identity_id, orgs |-> orgs, objects |-> objects, index |-> 0]

\* list.insert(index, x), index counted from 0
Insert(seq, at, x) == SubSeq(seq, 1, at) \o <<x>> \o SubSeq(seq, at + 1, Len(seq))

\* marking.split(':'): the segments between the colons
RECURSIVE Split(_, _)
Split(text, segment) ==
    IF text = <<>>
    THEN <<segment>>
    ELSE IF Head(text) = ":"
         THEN <<segment>> \o Split(Tail(text), <<>>)
         ELSE Split(Tail(text), Append(segment, Head(text)))

\* stix2_mapping.tlp_markings_v20, tlp_markings_v21: tag -> canonical definition
tlp_markings ==
    <<[k |-> <<"tlp", ":", "white">>, v |-> <<"marking-definition", 1>>],
      [k |-> <<"tlp", ":", "green">>, v |-> <<"marking-definition", 2>>],
      [k |-> <<"tlp", ":", "amber">>, v |-> <<"marking-definition", 3>>],
      [k |-> <<"tlp", ":", "red">>, v |-> <<"marking-definition", 4>>]>>

MarkingObject(id, definition_type, definition) ==
    [type |-> "marking-definition", id |-> id, name |-> <<definition_type, definition>>,
     created_by_ref |-> NoRef, object_refs |-> <<>>, object_marking_refs |-> <<>>]

\* _create_marking_definition_args: [exc, args]; the unpacking of split(':')
\* raises ValueError unless there are two segments
CreateMarkingDefinitionArgs(marking, uuid4) ==
    LET segments == Split(marking, <<>>)
    IN  IF Len(segments) # 2
        THEN [exc |-> TRUE, args |-> MarkingObject(NoRef, <<>>, <<>>)]
        ELSE [exc |-> FALSE,
              args |-> MarkingObject(<<"marking-definition", uuid4>>,
                                     segments[1], segments[2])]

\* MarkingDefinition(**marking_args) of the stix2 library: the definition types it knows
MarkingDefinitionAccepts(args) == args.name[1] \in {<<"statement">>, <<"tlp">>}

\* _create_marking: [exc, markings, marking_id]; marking_id NoRef stands for None
CreateMarking(markings, marking, uuid4) ==
    IF Has(tlp_markings, marking)
    THEN [exc |-> FALSE,
          markings |-> Put(markings, marking,
                           MarkingObject(Get(tlp_markings, marking), <<"tlp">>,
                                         LastSegment(marking))),
          marking_id |-> Get(tlp_markings, marking)]
    ELSE LET r == CreateMarkingDefinitionArgs(marking, uuid4)
         IN  IF r.exc
             THEN [exc |-> TRUE, markings |-> markings, marking_id |-> NoRef]
             ELSE IF MarkingDefinitionAccepts(r.args)
                  THEN [exc |-> FALSE, markings |-> Put(markings, marking, r.args),
                        marking_id |-> r.args.id]
                  ELSE [exc |-> FALSE, markings |-> markings, marking_id |-> NoRef]

\* _handle_markings without the look into self._markings: every marking is created
RECURSIVE HandleMarkingsLoopMinting(_, _, _, _)
HandleMarkingsLoopMinting(markings, todo, marking_ids, uuid4) ==
    IF todo = <<>>
    THEN [exc |-> FALSE, markings |-> markings, marking_ids |-> marking_ids]
    ELSE LET r == CreateMarking(markings, Head(todo), uuid4)
         IN  IF r.exc
             THEN [exc |-> TRUE, markings |-> markings, marking_ids |-> marking_ids]
             ELSE HandleMarkingsLoopMinting(
                      r.markings, Tail(todo),
                      IF r.marking_id # NoRef
                      THEN Append(marking_ids, r.marking_id)
                      ELSE marking_ids,
                      uuid4 + 1)

\* _handle_markings: [exc, markings, marking_ids]; uuid4 is the value uuid4() gives next
RECURSIVE HandleMarkingsLoop(_, _, _, _)
HandleMarkingsLoop(markings, todo, marking_ids, uuid4) ==
    IF todo = <<>>
    THEN [exc |-> FALSE, markings |-> markings, marking_ids |-> marking_ids]
    ELSE IF Has(markings, Head(todo))
         THEN HandleMarkingsLoop(markings, Tail(todo),
                                 Append(marking_ids, Get(markings, Head(todo)).id), uuid4)
         ELSE LET r == CreateMarking(markings, Head(todo), uuid4)
              IN  IF r.exc
                  THEN [exc |-> TRUE, markings |-> markings, marking_ids |-> marking_ids]
                  ELSE HandleMarkingsLoop(
                           r.markings, Tail(todo),
                           IF r.marking_id # NoRef
                           THEN Append(marking_ids, r.marking_id)
                           ELSE marking_ids,
                           uuid4 + 1)

HandleMarkings(markings, todo, uuid4) == HandleMarkingsLoop(markings, todo, <<>>, uuid4)

\* _handle_event_tags_and_galaxies of the base class: the markings of the event
HandleEventTagsAndGalaxies(event) == event.tags

\* Report(**report_args)
Report(event, identity_id, object_marking_refs, object_refs) ==
    [type |-> "report", id |-> <<"report", event.uuid>>, name |-> event.info,
     created_by_ref |-> identity_id, object_refs |-> object_refs,
     object_marking_refs |-> object_marking_refs]

\* _generate_event_report: [exc, markings, report]; with a marking in self._markings
\* the loop reads self._marking, which no line sets: AttributeError
GenerateEventReport(event, identity_id, markings_held, object_refs, uuid4) ==
    LET markings == HandleEventTagsAndGalaxies(event)
        r == IF markings # <<>>
             THEN HandleMarkings(markings_held, markings, uuid4)
             ELSE [exc |-> FALSE, markings |-> markings_held, marking_ids |-> <<>>]
    IN  [exc |-> r.exc \/ r.markings # EmptyDict,
         markings |-> r.markings,
         report |-> Report(event, identity_id, r.marking_ids, object_refs)]

\* one turn of the loop of _resolve_attributes: [errors, warnings].  The producer of
\* an indicator reads the undefined name marking (NameError), the producer of an
\* observable builds a dict and adds nothing, a producer this class does not have
\* gives AttributeError; _parse_custom_attribute belongs to the base class.
ResolveOneAttribute2(errs, warns, attribute) ==
    LET attribute_type == attribute.type
        mapped == Has(attribute_types_mapping, attribute_type)
        raises == /\ mapped
                  /\ \/ Get(attribute_types_mapping, attribute_type)
                            # "_parse_autonomous_system_attribute"
                     \/ attribute.to_ids
    IN  [errors |-> IF raises
                    THEN Append(errs, ErrorEntry(attribute_type, "attribute", attribute.value))
                    ELSE errs,
         warnings |-> IF mapped
                      THEN warns
                      ELSE warns \cup {<<"MISP Attribute type", attribute_type, "not mapped.">>}]

NoEvent2 ==
    [uuid |-> 0, info |-> "", Orgc |-> [uuid |-> 0, name |-> ""], tags |-> <<>>,
     Attribute |-> <<>>, Object |-> <<>>]

\* __init__
Init2 ==
    /\ _objects = <<>>
    /\ _object_refs = <<>>
    /\ _markings = EmptyDict
    /\ _orgs = <<>>
    /\ _ids = {}
    /\ _identity_id = NoRef
    /\ _errors = <<>>
    /\ _warnings = {}
    /\ _misp_event = NoEvent2
    /\ index = 0
    /\ pc2 = "idle"
    /\ calls = <<>>

Unresolved == [resolved |-> FALSE, exc |-> FALSE, marking_structures |-> <<>>]

\* no call of _set_handling made
Init3 ==
    /\ tag_list = <<>>
    /\ resolved_handling = Unresolved
    /\ resolutions = <<>>

Init == Init1 /\ Init2 /\ Init3

\* parse_misp_event up to the loops over the items
ParseMispEvent2(event, ids) ==
    /\ pc2 \in {"idle", "raised"}
    /\ Len(calls) < MaxEvents
    /\ LET r == SetIdentity(_orgs, ids, <<>>, event)
       IN  /\ _identity_id' = r.identity_id
           /\ _orgs' = r.orgs
           /\ _objects' = r.objects
           /\ index' = r.index
    /\ _misp_event' = event
    /\ _ids' = ids
    /\ _object_refs' = <<>>
    /\ pc2' = "items"
    /\ UNCHANGED <<_markings, _errors, _warnings, calls>>
    /\ UNCHANGED <<vars1, vars3>>

\* _resolve_attributes, one attribute
ResolveAttribute2(shape) ==
    /\ pc2 = "items"
    /\ Len(_misp_event.Attribute) < MaxAttributes
    /\ LET attribute == [shape EXCEPT !.uuid = Len(_misp_event.Attribute) + 1]
           r == ResolveOneAttribute2(_errors, _warnings, attribute)
       IN  /\ _errors' = r.errors
           /\ _warnings' = r.warnings
           /\ _misp_event' = [_misp_event EXCEPT !.Attribute = Append(@, attribute)]
    /\ UNCHANGED <<_objects, _object_refs, _markings, _orgs, _ids, _identity_id, index,
                   pc2, calls>>
    /\ UNCHANGED <<vars1, vars3>>

\* parse_misp_event from _generate_event_report on; uuid4 is what uuid4() gives next
FinishParse2(uuid4) ==
    /\ pc2 = "items"
    /\ LET r == GenerateEventReport(_misp_event, _identity_id, _markings, _object_refs, uuid4)
       IN  /\ _markings' = r.markings
           /\ _objects' = IF r.exc THEN _objects ELSE Insert(_objects, index, r.report)
           /\ pc2' = IF r.exc THEN "raised" ELSE "idle"
    /\ calls' = Append(calls, [orgc |-> _misp_event.Orgc.uuid, event |-> _misp_event.uuid,
                                ids |-> _ids, stix_objects |-> _objects',
                                markings |-> Values(_markings'),
                                fresh |-> /\ _markings = EmptyDict
                                          /\ \/ _orgs = <<>>
                                             \/ _orgs = <<_misp_event.Orgc.uuid>> /\ index = 1])
    /\ UNCHANGED <<_object_refs, _orgs, _ids, _identity_id, _errors, _warnings,
                   _misp_event, index>>
    /\ UNCHANGED <<vars1, vars3>>

----
\* The events of the model.
Tag(prefix, value) == <<prefix, ":", value>>

Cluster1 == [uuid |-> 101, value |-> <<"Phishing">>]

Cluster2 == [uuid |-> 102, value |-> <<"Patching">>]

AttackPatternGalaxy ==
    [type |-> "mitre-attack-pattern", name |-> "Attack Pattern",
     GalaxyCluster |-> <<Cluster1>>]

CourseOfActionGalaxy ==
    [type |-> "mitre-course-of-action", name |-> "Course of Action",
     GalaxyCluster |-> <<Cluster2>>]

Event(uuid, galaxies, tags) ==
    [uuid |-> uuid, published |-> FALSE, publish_timestamp |-> 0,
     Galaxy |-> galaxies, tags |-> tags, Attribute |-> <<>>, Object |-> <<>>]

\* the event with its published flag and its publish_timestamp (0: never published)
Published(event, published, publish_timestamp) ==
    [event EXCEPT !.published = published, !.publish_timestamp = publish_timestamp]

Attribute(type, value, to_ids, galaxies, tags) ==
    [uuid |-> 0, type |-> type, category |-> "Network activity", value |-> value,
     to_ids |-> to_ids, Galaxy |-> galaxies, tags |-> tags]

Events1 ==
    {Event(301, <<>>, <<>>),
     Event(302, <<AttackPatternGalaxy>>, <<>>),
     Event(303, <<CourseOfActionGalaxy>>, <<Tag("tlp", "amber")>>)}

AttributeShapes1 ==
    {Attribute("ip-dst", <<"198.51.100.7">>, TRUE, <<AttackPatternGalaxy>>, <<>>),
     Attribute("ip-dst", <<"198.51.100.7">>, TRUE, <<CourseOfActionGalaxy>>, <<>>),
     Attribute("ip-dst", <<"198.51.100.8">>, TRUE, <<AttackPatternGalaxy>>,
               <<Tag("tlp", "clear")>>),
     Attribute("ip-dst", <<"198.51.100.9">>, FALSE, <<AttackPatternGalaxy>>, <<>>),
     Attribute("x-custom", <<"raw">>, FALSE, <<>>, <<>>),
     Attribute("x-custom", <<"raw">>, TRUE, <<>>, <<Tag("tlp", "clear")>>)}

Next ==
    \/ \E event \in Events1 : ParseMispEvent(event)
    \/ \E shape \in AttributeShapes1 : ResolveAttribute(shape)
    \/ FinishParse

Spec == Init /\ [][Next]_vars

\* a galaxy of a type galaxy_types_mapping does not hold
UnmappedGalaxy ==
    [type |-> "x-sector", name |-> "Sector",
     GalaxyCluster |-> <<[uuid |-> 103, value |-> <<"Energy">>]>>]

EventsWithGalaxies ==
    {Event(331, <<AttackPatternGalaxy>>,
           <<QuickFetchTagNames(AttackPatternGalaxy)[1], <<"custom-stmt">>>>),
     Event(332, <<UnmappedGalaxy, CourseOfActionGalaxy>>, <<>>)}

AttributeShapesWithGalaxies ==
    {Attribute("ip-dst", <<"198.51.100.7">>, TRUE, <<AttackPatternGalaxy>>,
               <<QuickFetchTagNames(AttackPatternGalaxy)[1], Tag("tlp", "green")>>),
     Attribute("ip-dst", <<"198.51.100.8">>, TRUE,
               <<UnmappedGalaxy, AttackPatternGalaxy>>, <<>>),
     Attribute("ip-dst", <<"198.51.100.9">>, FALSE, <<UnmappedGalaxy>>, <<>>),
     Attribute("ip-dst", <<"198.51.100.10">>, FALSE,
               <<UnmappedGalaxy, CourseOfActionGalaxy>>, <<Tag("tlp", "amber")>>)}

NextGalaxies ==
    \/ \E event \in EventsWithGalaxies : ParseMispEvent(event)
    \/ \E shape \in AttributeShapesWithGalaxies : ResolveAttribute(shape)
    \/ FinishParse

SpecGalaxies == Init /\ [][NextGalaxies]_vars

\* events and attributes for the producers of rules
EventsWithRules ==
    {Event(341, <<>>, <<>>),
     Event(342, <<>>, <<Tag("tlp", "amber")>>)}

AttributeShapesWithRules ==
    {Attribute("snort", <<"alert tcp any any">>, FALSE, <<>>, <<>>),
     Attribute("snort", <<"alert tcp any any">>, TRUE, <<>>, <<Tag("tlp", "green")>>),
     Attribute("yara", <<"rule r { condition: true }">>, FALSE, <<>>, <<>>),
     Attribute("yara", <<"rule r { condition: true }">>, TRUE, <<>>, <<>>),
     Attribute("x-custom", <<"raw">>, FALSE, <<>>, <<>>)}

NextRules ==
    \/ \E event \in EventsWithRules : ParseMispEvent(event)
    \/ \E shape \in AttributeShapesWithRules : ResolveAttribute(shape)
    \/ FinishParse

SpecRules == Init /\ [][NextRules]_vars

EventsPublished ==
    {Published(Event(351, <<>>, <<>>), FALSE, 0),
     Published(Event(352, <<>>, <<>>), FALSE, 1700),
     Published(Event(353, <<>>, <<>>), TRUE, 1700),
     Published(Event(354, <<>>, <<Tag("tlp", "green")>>), TRUE, 1800)}

NextPublished ==
    \/ \E event \in EventsPublished : ParseMispEvent(event)
    \/ \E shape \in AttributeShapesWithRules : ResolveAttribute(shape)
    \/ FinishParse

SpecPublished == Init /\ [][NextPublished]_vars

AttributeShapesWithComposites ==
    {Attribute("domain|ip", <<"example.com", "|", "198.51.100.7">>, FALSE, <<>>, <<>>),
     Attribute("domain|ip", <<"example.org", "|", "198.51.100.8">>, TRUE, <<>>,
               <<Tag("tlp", "green")>>),
     Attribute("domain|ip", <<"example.net">>, FALSE, <<>>, <<>>),
     Attribute("ip-dst", <<"198.51.100.9">>, FALSE, <<>>, <<>>),
     Attribute("AS", <<"AS", "65001">>, TRUE, <<>>, <<>>)}

NextComposites ==
    \/ \E event \in EventsWithRules : ParseMispEvent(event)
    \/ \E shape \in AttributeShapesWithComposites : ResolveAttribute(shape)
    \/ FinishParse

SpecComposites == Init /\ [][NextComposites]_vars

ThreatActorGalaxy ==
    [type |-> "threat-actor", name |-> "Threat Actor",
     GalaxyCluster |-> <<[uuid |-> 104, value |-> <<"APT-X">>]>>]

\* a second galaxy of attack patterns that holds the cluster of the first
AttackPatternGalaxyRenamed == [AttackPatternGalaxy EXCEPT !.name = "Enterprise Attack"]

EventsWithDescriptors ==
    {Event(361, <<AttackPatternGalaxy>>, <<>>),
     Event(362, <<CourseOfActionGalaxy, ThreatActorGalaxy>>, <<>>),
     Event(363, <<AttackPatternGalaxy, AttackPatternGalaxyRenamed>>, <<>>),
     Event(364, <<AttackPatternGalaxyRenamed, AttackPatternGalaxy>>, <<>>)}

AttributeShapesWithDescriptors ==
    {Attribute("ip-dst", <<"198.51.100.7">>, TRUE, <<AttackPatternGalaxyRenamed>>, <<>>),
     Attribute("ip-dst", <<"198.51.100.8">>, TRUE, <<CourseOfActionGalaxy>>, <<>>),
     Attribute("ip-dst", <<"198.51.100.9">>, TRUE, <<AttackPatternGalaxy>>,
               <<Tag("tlp", "clear")>>),
     Attribute("vulnerability", <<"CVE-2021-44228">>, FALSE, <<>>, <<>>)}

NextDescriptors ==
    \/ \E event \in EventsWithDescriptors : ParseMispEvent(event)
    \/ \E shape \in AttributeShapesWithDescriptors : ResolveAttribute(shape)
    \/ FinishParse

SpecDescriptors == Init /\ [][NextDescriptors]_vars

ObjectAttribute(relation, value, to_ids, galaxies, tags) ==
    [object_relation |-> relation, value |-> value, to_ids |-> to_ids,
     Galaxy |-> galaxies, tags |-> tags]

Object(name, attributes) ==
    [uuid |-> 0, name |-> name, meta_category |-> "network", attributes |-> attributes]

EventsWithObjects ==
    {Event(311, <<>>, <<>>),
     Event(312, <<AttackPatternGalaxy>>, <<Tag("tlp", "green")>>),
     Event(313, <<UnmappedGalaxy, AttackPatternGalaxy>>, <<>>)}

ObjectShapes ==
    {Object("asn", <<ObjectAttribute("asn", <<"AS", "65001">>, TRUE,
                                     <<AttackPatternGalaxy>>, <<>>)>>),
     Object("asn", <<ObjectAttribute("asn", <<"AS", "65003">>, TRUE,
                                     <<UnmappedGalaxy>>, <<>>)>>),
     Object("asn", <<ObjectAttribute("asn", <<"65002">>, FALSE, <<>>, <<>>),
                     ObjectAttribute("description", <<"transit">>, FALSE, <<>>, <<>>)>>),
     Object("x-object", <<ObjectAttribute("field", <<"raw">>, TRUE, <<>>,
                                          <<Tag("tlp", "green"), <<"custom-stmt">>>>)>>),
     Object("original-imported-file",
            <<ObjectAttribute("imported-sample", <<"sample.json">>, TRUE, <<>>, <<>>)>>)}

NextObjects ==
    \/ \E event \in EventsWithObjects : ParseMispEvent(event)
    \/ \E shape \in ObjectShapes :
           \E order \in Orders(ObjectTagNames(shape)) : ResolveObject(shape, order)
    \/ FinishParse

SpecObjects == Init /\ [][NextObjects]_vars

Org1 == [uuid |-> 401, name |-> "ORG-A"]
Org2 == [uuid |-> 402, name |-> "ORG-B"]

Event2(uuid, orgc, tags) ==
    [uuid |-> uuid, info |-> "report", Orgc |-> orgc, tags |-> tags,
     Attribute |-> <<>>, Object |-> <<>>]

Events2 ==
    {Event2(321, Org1, <<>>),
     Event2(322, Org1, <<Tag("misp", "internal")>>),
     Event2(323, Org2, <<>>),
     Event2(324, Org2, <<Tag("tlp", "amber")>>),
     Event2(325, Org1, <<Tag("statement", "internal")>>)}

SeenIds == {{}, {<<"identity", 401>>}}

AttributeShapes2 ==
    {Attribute("AS", <<"AS", "65001">>, TRUE, <<>>, <<>>),
     Attribute("x-custom", <<"raw">>, FALSE, <<>>, <<>>)}

Uuid4Values == {501, 601}

Next2 ==
    \/ \E event \in Events2 : \E ids \in SeenIds : ParseMispEvent2(event, ids)
    \/ \E shape \in AttributeShapes2 : ResolveAttribute2(shape)
    \/ \E uuid4 \in Uuid4Values : FinishParse2(uuid4)

Spec2 == Init /\ [][Next2]_vars

\* MISPtoSTIX2Parser(): the caller goes on with a new instance
NewInstance ==
    /\ pc2 \in {"idle", "raised"}
    /\ calls # <<>>
    /\ _objects' = <<>>
    /\ _object_refs' = <<>>
    /\ _markings' = EmptyDict
    /\ _orgs' = <<>>
    /\ _ids' = {}
    /\ _identity_id' = NoRef
    /\ _errors' = <<>>
    /\ _warnings' = {}
    /\ _misp_event' = NoEvent2
    /\ index' = 0
    /\ pc2' = "idle"
    /\ UNCHANGED <<calls, vars1, vars3>>

NextInstances ==
    \/ \E event \in Events2 : \E ids \in SeenIds : ParseMispEvent2(event, ids)
    \/ \E shape \in AttributeShapes2 : ResolveAttribute2(shape)
    \/ \E uuid4 \in Uuid4Values : FinishParse2(uuid4)
    \/ NewInstance

SpecInstances == Init /\ [][NextInstances]_vars

\* a call of _set_handling with a list of tags
CallSetHandling(tags) ==
    /\ ~resolved_handling.resolved
    /\ tag_list' = tags
    /\ LET r == SetHandling(tags)
       IN  resolved_handling' = [resolved |-> TRUE, exc |-> r.exc,
                                 marking_structures |-> r.marking_structures]
    /\ UNCHANGED <<vars1, vars2, resolutions>>

\* the instance is ready for the next call
Return ==
    /\ resolved_handling.resolved
    /\ tag_list' = <<>>
    /\ resolved_handling' = Unresolved
    /\ UNCHANGED <<vars1, vars2, resolutions>>

TagPool ==
    {Tag("tlp", "white"), Tag("tlp", "green"), Tag("tlp", "amber"), Tag("tlp", "red"),
     Tag("tlp", "clear"), Tag("TLP", "AMBER"), <<"custom-stmt">>}

TagLists == UNION {[1..n -> TagPool] : n \in 0..MaxTags}

NextHandling ==
    \/ \E tags \in TagLists : CallSetHandling(tags)
    \/ Return

SpecHandling == Init /\ [][NextHandling]_vars

\* a call of _handle_markings with a tuple of markings; uuid4 is what uuid4() gives
\* next.  What the call placed in self._markings before an exception stays there.
CallHandleMarkings(markings, uuid4) ==
    /\ Len(resolutions) < MaxResolutions
    /\ LET r == HandleMarkings(_markings, markings, uuid4)
       IN  /\ _markings' = r.markings
           /\ resolutions' = Append(resolutions,
                                    [markings |-> markings, exc |-> r.exc,
                                     marking_ids |-> r.marking_ids])
    /\ UNCHANGED <<_objects, _object_refs, _orgs, _ids, _identity_id, _errors, _warnings,
                   _misp_event, index, pc2, calls>>
    /\ UNCHANGED <<vars1, tag_list, resolved_handling>>

MarkingLists ==
    {<<Tag("tlp", "amber")>>,
     <<Tag("statement", "internal")>>,
     <<Tag("statement", "internal"), Tag("statement", "internal")>>,
     <<Tag("misp", "internal"), Tag("statement", "internal")>>,
     <<<<"custom-stmt">>, Tag("statement", "internal")>>,
     <<<<"statement", ":", "a", ":", "b">>>>,
     <<Tag("TLP", "AMBER")>>,
     <<Tag("tlp", "amber"), Tag("statement", "other")>>}

NextMarkings ==
    \E markings \in MarkingLists : \E uuid4 \in Uuid4Values :
        CallHandleMarkings(markings, uuid4)

SpecMarkings == Init /\ [][NextMarkings]_vars

----
\* What the claims speak of.

\* a call of parse_misp_event has returned
Done == pc = "idle" /\ nparsed > 0

\* a call of parse_misp_event is reading the items, or has returned
Converting == pc = "items" \/ Done

\* the clusters of the galaxies of mapped type, as <<descriptor kind, uuid>>
DescriptorKind(galaxy) ==
    CASE Get(galaxy_types_mapping, galaxy.type) = "course_of_action" -> "CourseOfAction"
      [] Get(galaxy_types_mapping, galaxy.type) = "threat_actor" -> "ThreatActor"
      [] OTHER -> "TTP"

ClustersOf(galaxies) ==
    UNION {{<<DescriptorKind(galaxies[g]), galaxies[g].GalaxyCluster[c].uuid>> :
                c \in DOMAIN galaxies[g].GalaxyCluster} :
           g \in {x \in DOMAIN galaxies : Has(galaxy_types_mapping, galaxies[x].type)}}

\* the identifiers of the full descriptor entities of the package
PackageDescriptors ==
    stix_package.ttps \o stix_package.courses_of_action \o stix_package.threat_actors

PackageDescriptorIds == {PackageDescriptors[i].id : i \in DOMAIN PackageDescriptors}

\* the descriptors the caches held when the call began
CachedAtCall ==
    {<<"TTP", u>> : u \in at_call.ttps}
        \cup {<<"CourseOfAction", u>> : u \in at_call.courses_of_action}
        \cup {<<"ThreatActor", u>> : u \in at_call.threat_actors}

\* the indicators and the observables the incident holds
IndicatorOf(i) ==
    {incident.related_indicators[k].item : k \in
        {x \in DOMAIN incident.related_indicators :
            incident.related_indicators[x].item.id = <<"Indicator", i>>}}

ObservableOf(i) ==
    {incident.related_observables[k].item : k \in
        {x \in DOMAIN incident.related_observables :
            incident.related_observables[x].item.id = <<"Observable", i>>}}

\* attribute i of the event is in the output
InOutput(i) ==
    \/ IndicatorOf(i) # {}
    \/ ObservableOf(i) # {}
    \/ misp_event.Attribute[i].type = "vulnerability" /\ Has(ttps, i)

\* the identifiers an indicator's relationship lists name
IndicatorRefs(indicator) ==
    {indicator.indicated_ttps[k].idref : k \in DOMAIN indicator.indicated_ttps}
        \cup {indicator.suggested_coas[k].idref : k \in DOMAIN indicator.suggested_coas}

\* the errors recorded since the call began
NewErrors == SubSeq(errors, at_call.errors + 1, Len(errors))

AttributesRead == DOMAIN misp_event.Attribute

\* the attributes read that are not in the output, in the event's order
RECURSIVE FailedFrom(_)
FailedFrom(i) ==
    IF i > Len(misp_event.Attribute)
    THEN <<>>
    ELSE (IF InOutput(i) THEN <<>> ELSE <<misp_event.Attribute[i]>>) \o FailedFrom(i + 1)

----
\* C1: when event B is converted after an event that registered cluster u, B's
\* package holds no full behavior/mitigation/actor descriptor for u: u is only
\* referenced.
C1_NoDescriptorOfEarlierEvent ==
    Done =>
        \A d \in ClustersOf(misp_event.Galaxy)
                   \cup UNION {ClustersOf(misp_event.Attribute[i].Galaxy) : i \in AttributesRead} :
            d \in CachedAtCall => d \notin PackageDescriptorIds

C3_OneErrorPerFailingAttribute ==
    Converting =>
        NewErrors = [k \in DOMAIN FailedFrom(1) |->
                        ErrorEntry(FailedFrom(1)[k].type, "attribute", FailedFrom(1)[k].value)]

\* the first attribute failed, the second one is in the output, one error is recorded
C3_Witness ==
    /\ Converting
    /\ Len(misp_event.Attribute) >= 2
    /\ ~InOutput(1)
    /\ InOutput(2)
    /\ Len(NewErrors) = 1

\* C5: a failing attribute leaves nothing in the package: no descriptor built for
\* one of its clusters, that the caches did not hold before the call and that no
\* other item of the event refers to.
C5_NoPartialOutput ==
    Done =>
        \A i \in AttributesRead :
            ~InOutput(i) =>
                /\ IndicatorOf(i) = {} /\ ObservableOf(i) = {}
                /\ \A d \in ClustersOf(misp_event.Attribute[i].Galaxy) :
                       (/\ d \notin CachedAtCall
                        /\ d \notin ClustersOf(misp_event.Galaxy)
                        /\ \A j \in AttributesRead \ {i} :
                               InOutput(j) => d \notin ClustersOf(misp_event.Attribute[j].Galaxy))
                           => d \notin PackageDescriptorIds

\* C6: an attribute of a type the mapping table does not hold records a warning,
\* yields a custom entity with its type and value, and adds no error.
C6_UnmappedTypeNeverErrors ==
    Converting =>
        \A i \in AttributesRead :
            LET attribute == misp_event.Attribute[i]
            IN  ~Has(attribute_types_mapping, attribute.type) =>
                    /\ <<"MISP Attribute type", attribute.type, "not mapped.">> \in warnings
                    /\ \E o \in ObservableOf(i)
                               \cup {indicator.observable[1] : indicator \in IndicatorOf(i)} :
                           /\ o.object.type = "Custom"
                           /\ o.object.properties =
                                  <<[name |-> attribute.type, value |-> attribute.value]>>
                    /\ \A k \in DOMAIN NewErrors :
                           ~(NewErrors[k].type = attribute.type
                               /\ NewErrors[k].value = attribute.value)

\* the objects read so far, and object i of the event being in the output
ObjectsRead == DOMAIN misp_event.Object

ObjectInOutput(i) ==
    \/ \E k \in DOMAIN incident.related_indicators :
           incident.related_indicators[k].item.id = <<"Indicator", misp_event.Object[i].uuid>>
    \/ \E k \in DOMAIN incident.related_observables :
           incident.related_observables[k].item.id = <<"Observable", misp_event.Object[i].uuid>>

\* C4: an exception raised while converting a composite object is caught at the
\* object and recorded as an error naming it; parse_misp_event does not abort.
C4_ObjectFailureIsCaught ==
    \A i \in ObjectsRead :
        /\ pc # "raised"
        /\ (~ObjectInOutput(i) /\ misp_event.Object[i].name # "original-imported-file") =>
               \E k \in DOMAIN NewErrors : NewErrors[k].type = misp_event.Object[i].name

\* the entities of a kind in a sequence of entities
OfType(objects, type) == {k \in DOMAIN objects : objects[k].type = type}

\* the identity entities emitted for an organisation over all calls
IdentitiesEmitted(orgc) ==
    UNION {{<<c, k>> : k \in {j \in OfType(calls[c].stix_objects, "identity") :
                                   calls[c].stix_objects[j].id = <<"identity", orgc>>}} :
           c \in DOMAIN calls}

Completed(c) == OfType(calls[c].stix_objects, "report") # {}

TlpTags == SelectSeq(tag_list, StartsWithTlp)

StatementTags == SelectSeq(tag_list, LAMBDA tag : ~StartsWithTlp(tag))

MarkingsOf(structure) ==
    SelectSeq(resolved_handling.marking_structures, LAMBDA m : m.structure = structure)

\* C10: a list with a TLP tag resolves to one TLP marking, of the highest level among
\* the TLP tags of the list, and one statement marking per other tag.
C10_HighestLevelAndStatements ==
    (resolved_handling.resolved /\ TlpTags # <<>>) =>
        /\ ~resolved_handling.exc
        /\ Len(MarkingsOf("TLPMarkingStructure")) = 1
        /\ \E i \in DOMAIN TlpTags :
               MarkingsOf("TLPMarkingStructure")[1].value = Upper(LastSegment(TlpTags[i]))
        /\ \A i \in DOMAIN TlpTags :
               Has(TLP_order, Upper(LastSegment(TlpTags[i]))) =>
                   Get(TLP_order, MarkingsOf("TLPMarkingStructure")[1].value)
                       >= Get(TLP_order, Upper(LastSegment(TlpTags[i])))
        /\ Len(MarkingsOf("SimpleMarkingStructure")) = Len(StatementTags)
        /\ \A i \in DOMAIN StatementTags :
               MarkingsOf("SimpleMarkingStructure")[i].value = StatementTags[i]

\* a tag that gives no valid marking definition
FailsToDefine(tag) ==
    /\ ~Has(tlp_markings, tag)
    /\ LET r == CreateMarkingDefinitionArgs(tag, 0)
       IN  r.exc \/ ~MarkingDefinitionAccepts(r.args)

\* C11: a call of _handle_markings given a tag that yields no valid marking
\* definition raises nothing and returns one identifier per other tag: the tag is
\* dropped, the remaining ones are resolved.
C11_FailingTagIsDropped ==
    \A k \in DOMAIN resolutions :
        (\E i \in DOMAIN resolutions[k].markings : FailsToDefine(resolutions[k].markings[i])) =>
            /\ ~resolutions[k].exc
            /\ Len(resolutions[k].marking_ids) =
                   Len(SelectSeq(resolutions[k].markings, LAMBDA tag : ~FailsToDefine(tag)))

HandledTagNames(galaxies) ==
    UNION {Range(QuickFetchTagNames(galaxies[g])) :
           g \in {x \in DOMAIN galaxies : Has(galaxy_types_mapping, galaxies[x].type)}}

StatementsOf(marking_structures) ==
    {marking_structures[k].value :
        k \in {x \in DOMAIN marking_structures :
                  marking_structures[x].structure = "SimpleMarkingStructure"}}

\* C13: no statement marking of the incident names a cluster of a handled galaxy of
\* the event, and no statement marking of an indicator names a cluster of a
\* handled galaxy of its attribute.
C13_HandledGalaxyTagsAreNoStatements ==
    Converting =>
        /\ StatementsOf(incident.handling) \cap HandledTagNames(misp_event.Galaxy) = {}
        /\ \A i \in AttributesRead :
               \A indicator \in IndicatorOf(i) :
                   StatementsOf(indicator.handling)
                       \cap HandledTagNames(misp_event.Attribute[i].Galaxy) = {}

\* the event and one of its attributes carry the tag of a handled cluster beside
\* another tag, and both got a handling
C13_Witness ==
    /\ Done
    /\ Range(misp_event.tags) \cap HandledTagNames(misp_event.Galaxy) # {}
    /\ StatementsOf(incident.handling) # {}
    /\ \E i \in AttributesRead :
           /\ Range(misp_event.Attribute[i].tags)
                  \cap HandledTagNames(misp_event.Attribute[i].Galaxy) # {}
           /\ \E indicator \in IndicatorOf(i) : indicator.handling # NoHandling

\* the warnings the items of the event read so far can raise
WarningsOfEvent ==
    {<<"MISP Attribute type", misp_event.Attribute[i].type, "not mapped.">> :
        i \in {x \in AttributesRead :
                  ~Has(attribute_types_mapping, misp_event.Attribute[x].type)}}
    \cup {<<misp_event.Galaxy[g].type, "galaxy in event not mapped.">> :
             g \in {x \in DOMAIN misp_event.Galaxy :
                       ~Has(galaxy_types_mapping, misp_event.Galaxy[x].type)}}
    \cup UNION {{<<misp_event.Attribute[i].Galaxy[g].type, "galaxy in",
                   misp_event.Attribute[i].type, "attribute not mapped.">> :
                    g \in {x \in DOMAIN misp_event.Attribute[i].Galaxy :
                              ~Has(galaxy_types_mapping,
                                   misp_event.Attribute[i].Galaxy[x].type)}} :
                i \in AttributesRead}

\* C14: during and after a call the instance reports the errors and the warnings
\* of the event of that call only.
C14_ErrorsAndWarningsOfThisEventOnly ==
    Converting =>
        /\ errors = [k \in DOMAIN FailedFrom(1) |->
                        ErrorEntry(FailedFrom(1)[k].type, "attribute", FailedFrom(1)[k].value)]
        /\ warnings \subseteq WarningsOfEvent

\* the relationships the incident holds to descriptors of the event's scope
IncidentRelationships ==
    Range(incident.leveraged_ttps) \cup Range(incident.coa_taken)
        \cup Range(incident.attributed_threat_actors)

\* C15: the leveraged TTPs, the courses of action taken and the attributed threat
\* actors of the incident of a returned call name clusters of the galaxies of that
\* call's event only.
C15_RelationshipsOfThisEventOnly ==
    Done =>
        \A relationship \in IncidentRelationships :
            relationship.idref \in ClustersOf(misp_event.Galaxy)

\* the tags of resolution k that give a marking definition, in order: the
\* identifiers returned are theirs, one by one
DefinedBy(k) == SelectSeq(resolutions[k].markings, LAMBDA tag : ~FailsToDefine(tag))

\* the identifiers the resolutions returned for a tag
IdentifiersOf(tag) ==
    UNION {{resolutions[k].marking_ids[i] :
               i \in {x \in DOMAIN resolutions[k].marking_ids : DefinedBy(k)[x] = tag}} :
           k \in DOMAIN resolutions}

FirstColon(tag) ==
    CHOOSE i \in DOMAIN tag : tag[i] = ":" /\ \A j \in 1..(i - 1) : tag[j] # ":"

\* C17: a tag outside the TLP vocabulary that holds two colons or more resolves, with
\* no exception, to a marking definition whose definition type is the text before
\* the first colon and whose definition is all the text after it.
C17_SplitOnFirstColon ==
    \A k \in DOMAIN resolutions :
        \A i \in DOMAIN resolutions[k].markings :
            LET tag == resolutions[k].markings[i]
            IN  (~Has(tlp_markings, tag) /\ Len(Split(tag, <<>>)) >= 3) =>
                    /\ ~resolutions[k].exc
                    /\ Has(_markings, tag)
                    /\ Get(_markings, tag).name =
                           <<SubSeq(tag, 1, FirstColon(tag) - 1),
                             SubSeq(tag, FirstColon(tag) + 1, Len(tag))>>

LowerToken(tok) ==
    CASE tok = "TLP" -> "tlp"
      [] tok = "WHITE" -> "white"
      [] tok = "GREEN" -> "green"
      [] tok = "AMBER" -> "amber"
      [] tok = "RED" -> "red"
      [] OTHER -> tok

\* the tag in lower case
Lower(text) == [i \in DOMAIN text |-> LowerToken(text[i])]

\* the tag is an entry of the TLP vocabulary, whatever the case of its letters
InVocabulary(tag) == Has(tlp_markings, Lower(tag))

\* C18: a tag that is an entry of the TLP vocabulary in any letter case resolves to
\* the TLP marking and is never made a statement marking.
C18_VocabularyInAnyCase ==
    resolved_handling.resolved =>
        \A i \in DOMAIN tag_list :
            InVocabulary(tag_list[i]) =>
                /\ Len(MarkingsOf("TLPMarkingStructure")) = 1
                /\ \A j \in DOMAIN MarkingsOf("SimpleMarkingStructure") :
                       MarkingsOf("SimpleMarkingStructure")[j].value # tag_list[i]

\* the galaxies of unmapped type among the attributes of object i of the event
UnmappedGalaxiesOfObject(i) ==
    UNION {{misp_event.Object[i].attributes[a].Galaxy[g] :
               g \in {x \in DOMAIN misp_event.Object[i].attributes[a].Galaxy :
                         ~Has(galaxy_types_mapping,
                              misp_event.Object[i].attributes[a].Galaxy[x].type)}} :
           a \in DOMAIN misp_event.Object[i].attributes}

\* C19: a galaxy of unmapped type, at the event or at a composite object, records
\* its warning and lets the conversion go on: the call does not raise, and the
\* galaxies of mapped type beside it at the event get their descriptors.
C19_UnmappedGalaxyWarnsAndContinues ==
    (misp_event # NoEvent /\ nparsed > 0) =>
        /\ \A g \in DOMAIN misp_event.Galaxy :
               ~Has(galaxy_types_mapping, misp_event.Galaxy[g].type) =>
                   /\ <<misp_event.Galaxy[g].type, "galaxy in event not mapped.">> \in warnings
                   /\ \A d \in ClustersOf(misp_event.Galaxy) :
                          d[1] = "TTP" => Has(ttps, d[2])
        /\ \A i \in ObjectsRead :
               \A galaxy \in UnmappedGalaxiesOfObject(i) :
                   /\ pc # "raised"
                   /\ <<galaxy.type, "galaxy in", misp_event.Object[i].name,
                        "object not mapped.">> \in warnings

\* the places of the incident's related indicators and related observables that
\* hold attribute i
IndicatorLinks(i) ==
    {k \in DOMAIN incident.related_indicators :
        incident.related_indicators[k].item.id = <<"Indicator", i>>}

ObservableLinks(i) ==
    {k \in DOMAIN incident.related_observables :
        incident.related_observables[k].item.id = <<"Observable", i>>}

\* C20: every attribute read whose producer gives an observable is linked to the
\* incident once: as one related indicator holding the observable when to_ids is
\* true, as one related observable when it is false, never as both, with the
\* attribute's category as relationship.
C20_LinkedExactlyOnce ==
    Converting =>
        \A i \in AttributesRead :
            LET attribute == misp_event.Attribute[i]
            IN  attribute.type # "vulnerability" =>
                    IF attribute.to_ids
                    THEN /\ Cardinality(IndicatorLinks(i)) = 1
                         /\ ObservableLinks(i) = {}
                         /\ \A k \in IndicatorLinks(i) :
                                /\ incident.related_indicators[k].relationship
                                       = attribute.category
                                /\ Len(incident.related_indicators[k].item.observable) = 1
                    ELSE /\ Cardinality(ObservableLinks(i)) = 1
                         /\ IndicatorLinks(i) = {}
                         /\ \A k \in ObservableLinks(i) :
                                incident.related_observables[k].relationship
                                    = attribute.category

\* C21: a snort or yara attribute read with to_ids false is in the output as one
\* related observable holding a custom object with the attribute's type and value,
\* and adds no error.
C21_RuleWithoutIdsIsCustomObservable ==
    Converting =>
        \A i \in AttributesRead :
            LET attribute == misp_event.Attribute[i]
            IN  (attribute.type \in {"snort", "yara"} /\ ~attribute.to_ids) =>
                    /\ Cardinality(ObservableLinks(i)) = 1
                    /\ \A k \in ObservableLinks(i) :
                           /\ incident.related_observables[k].item.object.type = "Custom"
                           /\ incident.related_observables[k].item.object.properties =
                                  <<[name |-> attribute.type, value |-> attribute.value]>>
                    /\ \A k \in DOMAIN NewErrors : NewErrors[k].type # attribute.type

\* the incident being built and, once the call returned, the one in the package
IncidentsOfCall ==
    {incident} \cup
        (IF Done THEN {stix_package.incidents[k] : k \in DOMAIN stix_package.incidents}
         ELSE {})

\* C22: the incident holds a reported time exactly when the event is published, and
\* then the event's publish_timestamp; an event not published leaves it unset
\* whatever its publish_timestamp.
C22_ReportedIffPublished ==
    Converting =>
        \A inc \in IncidentsOfCall :
            /\ inc.time.incident_reported # <<>> <=> misp_event.published
            /\ misp_event.published =>
                   inc.time.incident_reported = <<misp_event.publish_timestamp>>

\* a returned call for an event not published that has a publish_timestamp
C22_Witness ==
    /\ Done
    /\ ~misp_event.published
    /\ misp_event.publish_timestamp # 0
    /\ stix_package.incidents[1].time.incident_reported = <<>>

\* the entities of the output other than the identity and the report
ConvertedEntities ==
    SelectSeq(_objects, LAMBDA object : object.type \notin {"identity", "report"})

MarkingEntities(c) ==
    {calls[c].stix_objects[k] : k \in OfType(calls[c].stix_objects, "marking-definition")}

MintedBy(c) ==
    Range(calls[c].markings) \ (IF c > 1 THEN Range(calls[c - 1].markings) ELSE {})

HandlesOf(inc) ==
    {inc.leveraged_ttps[k].idref : k \in DOMAIN inc.leveraged_ttps}
        \cup {inc.coa_taken[k].idref : k \in DOMAIN inc.coa_taken}
        \cup {inc.attributed_threat_actors[k].idref : k \in DOMAIN inc.attributed_threat_actors}
        \cup UNION {IndicatorRefs(inc.related_indicators[k].item) :
                       k \in DOMAIN inc.related_indicators}

\* C25: every TTP, course of action or threat actor a relationship of an incident of
\* the package or of one of its indicators names is a full descriptor of that
\* package.
C25_HandlesNameDescriptorsOfThePackage ==
    \A k \in DOMAIN stix_package.incidents :
        HandlesOf(stix_package.incidents[k]) \subseteq PackageDescriptorIds

\* a package whose incident and indicator name descriptors of the three kinds
C25_Witness ==
    /\ Done
    /\ stix_package.incidents[1].coa_taken # <<>>
    /\ stix_package.incidents[1].attributed_threat_actors # <<>>
    /\ stix_package.incidents[1].leveraged_ttps # <<>>
    /\ \E k \in DOMAIN stix_package.incidents[1].related_indicators :
           stix_package.incidents[1].related_indicators[k].item.indicated_ttps # <<>>

\* the observables linked to the incident, alone or inside an indicator, and with
\* them the members of the compositions
LinkedObservables ==
    {incident.related_observables[k].item : k \in DOMAIN incident.related_observables}
        \cup UNION {Range(incident.related_indicators[k].item.observable) :
                       k \in DOMAIN incident.related_indicators}

ObservablesOfOutput ==
    LinkedObservables \cup UNION {Range(o.observable_composition) : o \in LinkedObservables}

\* C26: the attributes of the event having distinct UUIDs, no two distinct
\* observables of the output, members of a composition included, have the same
\* identifier.
C26_ObservableIdentifiersAreDistinct ==
    Converting =>
        \A o1, o2 \in ObservablesOfOutput : o1 # o2 => o1.id # o2.id

\* the UUIDs of the clusters of all the galaxies of an attribute
ClusterUuids(attribute) ==
    UNION {{attribute.Galaxy[g].GalaxyCluster[c].uuid :
               c \in DOMAIN attribute.Galaxy[g].GalaxyCluster} :
           g \in DOMAIN attribute.Galaxy}

\* the turn of _resolve_attributes for an attribute whose to_ids is false
ReadsWithoutIds(attribute) ==
    /\ ~attribute.to_ids
    /\ misp_event'.Attribute = Append(misp_event.Attribute, attribute)

\* C27: the turn for an attribute whose to_ids is false puts none of the clusters of
\* its galaxies in a cache or in the relationships of the event, adds no indicator,
\* records no warning for a galaxy, and the observable it links holds no handling.
C27_NoAnnotationWithoutIds ==
    [][\A attribute \in {misp_event'.Attribute[i] : i \in DOMAIN misp_event'.Attribute} :
           ReadsWithoutIds(attribute) =>
               /\ \A u \in ClusterUuids(attribute) :
                      /\ Has(ttps', u) <=> Has(ttps, u)
                      /\ Has(courses_of_action', u) <=> Has(courses_of_action, u)
                      /\ Has(threat_actors', u) <=> Has(threat_actors, u)
                      /\ Has(contextualised_data'.ttp, u) <=> Has(contextualised_data.ttp, u)
                      /\ Has(contextualised_data'.course_of_action, u)
                             <=> Has(contextualised_data.course_of_action, u)
               /\ incident'.related_indicators = incident.related_indicators
               /\ warnings' \ warnings
                      \subseteq {<<"MISP Attribute type", attribute.type, "not mapped.">>}
               /\ \A k \in DOMAIN incident'.related_observables :
                      "handling" \notin DOMAIN incident'.related_observables[k].item]_vars

\* an attribute without to_ids, with a tag, a galaxy of mapped type and one of
\* unmapped type, linked as observable while its cluster is in no cache
C27_Witness ==
    /\ Converting
    /\ \E i \in AttributesRead :
           /\ ~misp_event.Attribute[i].to_ids
           /\ misp_event.Attribute[i].tags # <<>>
           /\ ClustersOf(misp_event.Attribute[i].Galaxy) # {}
           /\ \E g \in DOMAIN misp_event.Attribute[i].Galaxy :
                  ~Has(galaxy_types_mapping, misp_event.Attribute[i].Galaxy[g].type)
           /\ ObservableLinks(i) # {}
           /\ \A u \in ClusterUuids(misp_event.Attribute[i]) : ~Has(courses_of_action, u)
           /\ warnings = {}

\* the galaxies of the event, in order, that offer cluster u as a TTP
OfferingTtp(event, u) ==
    SelectSeq(event.Galaxy,
              LAMBDA galaxy : /\ Has(galaxy_types_mapping, galaxy.type)
                              /\ DescriptorKind(galaxy) = "TTP"
                              /\ \E c \in DOMAIN galaxy.GalaxyCluster :
                                     galaxy.GalaxyCluster[c].uuid = u)

\* C28: the leveraged TTPs of an incident name each source UUID at most once, a
\* relationship once recorded for a UUID is never replaced, and the one recorded
\* when an event offers a new UUID in several galaxies is that of the first.
C28_FirstRelationshipIsKept ==
    [][/\ \A k \in DOMAIN contextualised_data.ttp :
              /\ k <= Len(contextualised_data'.ttp)
              /\ contextualised_data'.ttp[k] = contextualised_data.ttp[k]
       /\ \A i, j \in DOMAIN incident'.leveraged_ttps :
              i # j => incident'.leveraged_ttps[i].idref # incident'.leveraged_ttps[j].idref
       /\ nparsed' = nparsed + 1 =>
              \A k \in DOMAIN contextualised_data'.ttp :
                  k > Len(contextualised_data.ttp) =>
                      contextualised_data'.ttp[k].v.relationship =
                          OfferingTtp(misp_event', contextualised_data'.ttp[k].k)[1].name]_vars

\* a returned call for an event whose two galaxies offer the same cluster, with one
\* leveraged TTP for it, and a vulnerability attribute with its own
C28_Witness ==
    /\ Done
    /\ Len(OfferingTtp(misp_event, 101)) = 2
    /\ Cardinality({k \in DOMAIN incident.leveraged_ttps :
                       incident.leveraged_ttps[k].idref = <<"TTP", 101>>}) = 1
    /\ \E i \in AttributesRead :
           /\ misp_event.Attribute[i].type = "vulnerability"
           /\ \E k \in DOMAIN incident.leveraged_ttps :
                  incident.leveraged_ttps[k].idref = <<"TTP", i>>

\* every entry of the cache is an entity of the kind whose identifier is made of
\* the entry's key
DerivedFromKeys(cache, kind) ==
    \A k \in DOMAIN cache : cache[k].v.id = <<kind, cache[k].k>>

\* every entry of the cache before is in the cache after, with the same identifier
GrowsFrom(before, after) ==
    \A k \in DOMAIN before :
        /\ Has(after, before[k].k)
        /\ Get(after, before[k].k).id = before[k].v.id

\* C29: over the calls made on the instance, each step leaves in the caches of TTPs,
\* courses of action and threat actors every entry they held, with the same
\* identifier, and every entry under UUID u holds the entity TTP-u,
\* CourseOfAction-u or ThreatActor-u.
C29_CachesOnlyGrow ==
    [][/\ GrowsFrom(ttps, ttps')
       /\ GrowsFrom(courses_of_action, courses_of_action')
       /\ GrowsFrom(threat_actors, threat_actors')
       /\ DerivedFromKeys(ttps', "TTP")
       /\ DerivedFromKeys(courses_of_action', "CourseOfAction")
       /\ DerivedFromKeys(threat_actors', "ThreatActor")]_vars

\* a second call on an instance whose three caches hold entries, the TTP of a
\* vulnerability attribute among them
C29_Witness ==
    /\ nparsed = 2
    /\ pc = "items"
    /\ Has(ttps, 101)
    /\ Has(courses_of_action, 102)
    /\ Has(threat_actors, 104)
    /\ \E i \in AttributesRead :
           misp_event.Attribute[i].type = "vulnerability" /\ Has(ttps, i)

\* the places of the incident's related indicators and related observables that
\* hold object i of the event
ObjectIndicatorLinks(i) ==
    {k \in DOMAIN incident.related_indicators :
        incident.related_indicators[k].item.id = <<"Indicator", misp_event.Object[i].uuid>>}

ObjectObservableLinks(i) ==
    {k \in DOMAIN incident.related_observables :
        incident.related_observables[k].item.id = <<"Observable", misp_event.Object[i].uuid>>}

\* C30: every object read is linked as one indicator when one of its attributes has
\* to_ids, and as one related observable labelled with its meta-category when none
\* has; an object named original-imported-file gives no output, warning or error.
C30_IndicatorExactlyWithIds ==
    \A i \in ObjectsRead :
        LET misp_object == misp_event.Object[i]
        IN  IF misp_object.name = "original-imported-file"
            THEN /\ ObjectIndicatorLinks(i) = {} /\ ObjectObservableLinks(i) = {}
                 /\ \A w \in warnings : \A k \in DOMAIN w : w[k] # misp_object.name
                 /\ \A k \in DOMAIN NewErrors : NewErrors[k].type # misp_object.name
            ELSE IF FetchIdsFlags(misp_object.attributes)
                 THEN /\ Cardinality(ObjectIndicatorLinks(i)) = 1
                      /\ ObjectObservableLinks(i) = {}
                 ELSE /\ Cardinality(ObjectObservableLinks(i)) = 1
                      /\ ObjectIndicatorLinks(i) = {}
                      /\ \A k \in ObjectObservableLinks(i) :
                             incident.related_observables[k].relationship
                                 = misp_object.meta_category

====
